---- MODULE Spec2Model ----
(***************************************************************************)
(* Execution-context isolation of qiankun: the multi-instance ProxySandbox *)
(* and the legacy SingularProxySandbox (src/src/sandbox/proxySandbox.ts),  *)
(* and the sandbox container (src/src/sandbox/index.ts).                   *)
(*                                                                         *)
(* A JavaScript object is a function from the keys it owns to property     *)
(* descriptors; window is rawWindow.  Every facade trap is one action and  *)
(* models the whole trap, a TypeError raised part-way included: what the   *)
(* trap changed before the throw stays changed, what follows is skipped    *)
(* (the sources are ES modules, hence strict-mode code).                   *)
(***************************************************************************)
EXTENDS Integers, Sequences, FiniteSets, TLC

VARIABLES
    scope,                    \* the property keys the page and its applications use
    rawWindow,                \* the shared global object (window)
    activeSandboxCount,       \* module-level counter of proxySandbox.ts
    sandboxType,              \* per instance: "None" before construction
    sandboxRunning,
    latestSetProp,
    fakeWindow,               \* ProxySandbox: the overlay object
    propertiesWithGetter,     \* ProxySandbox
    updatedValueSet,          \* ProxySandbox
    descriptorTargetMap,      \* ProxySandbox
    addedPropsMapInSandbox,                  \* SingularProxySandbox
    modifiedPropsOriginalValueMapInSandbox,  \* SingularProxySandbox
    currentUpdatedPropsValueMap,             \* SingularProxySandbox
    mountingFreers,           \* sandbox container, per application
    sideEffectsRebuilders,    \* sandbox container, per application
    lifecycleTrace,           \* what the latest mount() or unmount() did, in order
    bootstrappingPatchCount,  \* forStrictSandbox: module state
    mountingPatchCount,       \* forStrictSandbox: module state
    createElementPatched,     \* Document.prototype.createElement is the interception
    proxyAttachContainerConfigMap,   \* the facades that have a ContainerConfig
    createdElement,           \* the element document.createElement returned last
    dynamicStyleSheetElements,       \* per ContainerConfig: the recorded style/link elements
    wrapperChildren,          \* per application: the style/link elements under its wrapper
    reappended,               \* per application: what the latest mount() appended, in order
    currentRunningSandboxProxy,      \* common: the facade marked as executing
    nextTaskPending,          \* a callback of nextTask waits for the next tick
    returned,                 \* what the latest facade read returned
    isTopWindow,              \* window === window.parent
    windowProxy,              \* window.Proxy is available
    appConfig,                \* loader, per application: what loadApp was given
    appStatus,                \* loader, per application: status and position in its chain
    containerExists,          \* the container element of the applications is in the document
    prevAppUnmountedDeferred, \* loader: module state, 0 while undefined
    deferredCount,            \* the Deferreds created so far, numbered from 1
    resolvedDeferreds,        \* the Deferreds that have been resolved
    awaitedDeferred,          \* per application: the Deferred its chain waits for
    lastError,                \* per application: the error that rejected its chain
    microApps,                \* the applications registered with registerMicroApps
    frameworkConfiguration,   \* what start() kept of its options
    frameworkStarted,         \* frameworkStartedDefer has been resolved
    loadRequested,            \* per application: when single-spa asked for its load
    call,                     \* the latest call and how it completed
    history,                  \* legacy sandbox "A": what an observer of window recorded
    escaped,                  \* allow-list keys on window that a sandbox wrote last
    creator                   \* whose code made the latest call of document.createElement

sandboxVars == <<sandboxType, sandboxRunning, latestSetProp>>
proxyVars == <<activeSandboxCount, fakeWindow, propertiesWithGetter,
               updatedValueSet, descriptorTargetMap>>
legacyVars == <<addedPropsMapInSandbox, modifiedPropsOriginalValueMapInSandbox,
                currentUpdatedPropsValueMap>>
styleVars == <<dynamicStyleSheetElements, wrapperChildren, reappended>>
patchVars == <<bootstrappingPatchCount, mountingPatchCount, createElementPatched,
               proxyAttachContainerConfigMap, createdElement, styleVars>>
containerVars == <<mountingFreers, sideEffectsRebuilders, lifecycleTrace, patchVars>>
readVars == <<currentRunningSandboxProxy, nextTaskPending, returned, isTopWindow>>
startVars == <<microApps, frameworkConfiguration, frameworkStarted, loadRequested>>
loaderVars == <<windowProxy, appConfig, appStatus, containerExists,
                prevAppUnmountedDeferred, deferredCount, resolvedDeferreds,
                awaitedDeferred, lastError, startVars>>
observerVars == <<history, escaped, creator>>
vars == <<scope, rawWindow, sandboxVars, proxyVars, legacyVars, containerVars, call,
          readVars, loaderVars, observerVars>>

-----------------------------------------------------------------------------
(* Bounds and universes *)

\* application values are 1..MaxVal; Undefined is the value undefined
MaxVal == 2
\* how far below zero repeated inactive() calls may drive activeSandboxCount
MaxUnderflow == 1

Undefined == 0
AppValues == 1..MaxVal
Values == {Undefined} \cup AppValues

\* the applications (one sandbox instance each)
Apps == {"A", "B"}

Null == "null"

\* the code of the host page, next to the code of the applications
Host == "host"

\* the host's value of a property it defined
HostValue == MaxVal

-----------------------------------------------------------------------------
(* Objects and property descriptors *)

DataProp(v, w, c, e) ==
    [val |-> v, writable |-> w, configurable |-> c, enumerable |-> e, getter |-> FALSE]

\* an accessor property with a getter and no setter; val is what the getter returns
AccessorProp(v, c, e) ==
    [val |-> v, writable |-> FALSE, configurable |-> c, enumerable |-> e, getter |-> TRUE]

EmptyObject == [k \in {} |-> DataProp(Undefined, TRUE, TRUE, TRUE)]

HasOwn(obj, p) == p \in DOMAIN obj

\* obj[p]: the value, or the getter's result, or undefined
GetValue(obj, p) == IF HasOwn(obj, p) THEN obj[p].val ELSE Undefined

Put(obj, p, d) == [k \in DOMAIN obj \cup {p} |-> IF k = p THEN d ELSE obj[k]]

Remove(obj, p) == [k \in DOMAIN obj \ {p} |-> obj[k]]

\* obj[p] = v succeeds: no own property, or a writable data property
CanAssign(obj, p) == IF HasOwn(obj, p) THEN ~obj[p].getter /\ obj[p].writable ELSE TRUE

\* obj[p] = v; the object is left alone where the assignment throws
Assign(obj, p, v) ==
    IF ~HasOwn(obj, p) THEN Put(obj, p, DataProp(v, TRUE, TRUE, TRUE))
    ELSE IF CanAssign(obj, p) THEN [obj EXCEPT ![p].val = v]
    ELSE obj

\* delete obj[p] succeeds
CanDelete(obj, p) == IF HasOwn(obj, p) THEN obj[p].configurable ELSE TRUE

\* Reflect.defineProperty(obj, p, d) with a complete data descriptor d returns true
CanDefine(obj, p, d) ==
    IF ~HasOwn(obj, p) THEN TRUE
    ELSE IF obj[p].configurable THEN TRUE
    ELSE /\ ~obj[p].getter
         /\ ~d.configurable
         /\ d.enumerable = obj[p].enumerable
         /\ IF obj[p].writable THEN TRUE ELSE ~d.writable /\ d.val = obj[p].val

Define(obj, p, d) == IF CanDefine(obj, p, d) THEN Put(obj, p, d) ELSE obj

\* the descriptors a caller passes to Object.defineProperty
DefineAttributes ==
    {DataProp(v, w, c, TRUE) : v \in AppValues, w \in BOOLEAN, c \in BOOLEAN}

\* the properties the host page may have defined on window before any sandbox
HostProps ==
    {DataProp(HostValue, TRUE, TRUE, TRUE), DataProp(HostValue, TRUE, TRUE, FALSE),
     DataProp(HostValue, FALSE, TRUE, TRUE), DataProp(HostValue, TRUE, FALSE, TRUE),
     DataProp(HostValue, FALSE, FALSE, TRUE),
     AccessorProp(HostValue, TRUE, TRUE), AccessorProp(HostValue, FALSE, TRUE)}

\* every window owning some of the keys K, each with a host property
HostWindows(K) == UNION {[S -> HostProps] : S \in SUBSET K}

IsSymbol(p) == p \in {"symA"}

-----------------------------------------------------------------------------
(* Map<PropertyKey, any>: a sequence of <<key, value>> in insertion order *)

EmptyMap == <<>>

MapKeys(m) == {m[i][1] : i \in DOMAIN m}

MapHas(m, p) == p \in MapKeys(m)

MapGet(m, p) == LET i == CHOOSE j \in DOMAIN m : m[j][1] = p IN m[i][2]

MapSet(m, p, v) ==
    IF MapHas(m, p)
    THEN [i \in DOMAIN m |-> IF m[i][1] = p THEN <<p, v>> ELSE m[i]]
    ELSE Append(m, <<p, v>>)

-----------------------------------------------------------------------------
(* ProxySandbox *)

variableWhiteList == <<"System", "__cjsWrapper">>

InWhiteList(p) == \E i \in DOMAIN variableWhiteList : variableWhiteList[i] = p

SelfKeys == {"top", "parent", "self", "window"}

\* the keys createFakeWindow copies: own string-keyed, not configurable
NonConfigurableNames(global) ==
    {p \in DOMAIN global : ~IsSymbol(p) /\ ~global[p].configurable}

createFakeWindow(global) ==
    [fakeWindow |->
        [p \in NonConfigurableNames(global) |->
            IF p \in SelfKeys
            THEN [global[p] EXCEPT !.configurable = TRUE,
                                   !.writable = IF global[p].getter THEN @ ELSE TRUE]
            ELSE global[p]],
     propertiesWithGetter |-> {p \in NonConfigurableNames(global) : global[p].getter}]

\* the constructor's hasOwnProperty closure, which the get trap returns for
\* proxy.hasOwnProperty
ProxyHasOwnProperty(s, raw, key) == HasOwn(fakeWindow[s], key) \/ HasOwn(raw, key)

\* set trap, lines 190-207: the overlay after the write
SetOverlay(target, raw, p, value) ==
    IF ~HasOwn(target, p) /\ HasOwn(raw, p)
    THEN IF raw[p].writable
         THEN Put(target, p, DataProp(value, TRUE, raw[p].configurable, raw[p].enumerable))
         ELSE target
    ELSE Assign(target, p, value)

\* target[p] = value (line 206) throws
SetOverlayThrows(target, raw, p) ==
    ~(~HasOwn(target, p) /\ HasOwn(raw, p)) /\ ~CanAssign(target, p)

\* a set trap that writes every key back to window
WriteBackAlways(p) == TRUE

\* a set trap that records no key
AddNothing(updated, p) == updated

\* set trap, lines 214-215: updatedValueSet.add(p)
UpdatedValueSetAdd(updated, p) == updated \cup {p}

\* set trap, lines 209-212
WriteBack(p) == InWhiteList(p)

ProxySet(s, p, value) ==
    /\ sandboxType[s] = "Proxy"
    /\ IF sandboxRunning[s]
       THEN LET t1 == SetOverlayThrows(fakeWindow[s], rawWindow, p)
                wb == ~t1 /\ WriteBack(p)
                t2 == wb /\ ~CanAssign(rawWindow, p)
            IN  /\ fakeWindow' = [fakeWindow EXCEPT
                                    ![s] = SetOverlay(@, rawWindow, p, value)]
                /\ rawWindow' = IF wb THEN Assign(rawWindow, p, value) ELSE rawWindow
                /\ IF t1 \/ t2
                   THEN /\ call' = <<"set", "throw">>
                        /\ UNCHANGED <<updatedValueSet, latestSetProp>>
                   ELSE /\ call' = <<"set", "return">>
                        /\ updatedValueSet' = [updatedValueSet EXCEPT
                                                  ![s] = UpdatedValueSetAdd(@, p)]
                        /\ latestSetProp' = [latestSetProp EXCEPT ![s] = p]
       ELSE /\ call' = <<"set", "return">>
            /\ UNCHANGED <<fakeWindow, rawWindow, updatedValueSet, latestSetProp>>
    /\ UNCHANGED <<sandboxType, sandboxRunning, activeSandboxCount,
                   propertiesWithGetter, descriptorTargetMap, scope, legacyVars, containerVars>>

\* get trap, lines 283-288, for a key that is none of the specially handled ones
getTargetValue(value) == value

\* a get trap that reads the overlay before anything else
ProxyGetOverlayFirst(s, raw, p) ==
    getTargetValue(
        IF HasOwn(fakeWindow[s], p) THEN fakeWindow[s][p].val ELSE GetValue(raw, p))

ProxyGet(s, raw, p) ==
    getTargetValue(
        IF p \in propertiesWithGetter[s] THEN GetValue(raw, p)
        ELSE IF HasOwn(fakeWindow[s], p) THEN fakeWindow[s][p].val
        ELSE GetValue(raw, p))

ProxyGetOwnPropertyDescriptor(s, p) ==
    /\ sandboxType[s] = "Proxy"
    /\ descriptorTargetMap' = [descriptorTargetMap EXCEPT ![s] =
            IF HasOwn(fakeWindow[s], p) THEN Put(@, p, "target")
            ELSE IF HasOwn(rawWindow, p) THEN Put(@, p, "rawWindow")
            ELSE @]
    /\ call' = <<"getOwnPropertyDescriptor", "return">>
    /\ UNCHANGED <<rawWindow, sandboxVars, activeSandboxCount, fakeWindow,
                   propertiesWithGetter, updatedValueSet, scope, legacyVars, containerVars>>

\* where the defineProperty trap sends the definition
DefineOnRawWindow(s, p) ==
    HasOwn(descriptorTargetMap[s], p) /\ descriptorTargetMap[s][p] = "rawWindow"

\* what the engine requires of the target once the trap has returned true
DefineInvariantOk(target, p, attributes) ==
    /\ ~attributes.configurable => (HasOwn(target, p) /\ ~target[p].configurable)
    /\ HasOwn(target, p) => CanDefine(target, p, attributes)

ProxyDefineProperty(s, p, attributes) ==
    /\ sandboxType[s] = "Proxy"
    /\ LET onRaw == DefineOnRawWindow(s, p)
           done == IF onRaw THEN CanDefine(rawWindow, p, attributes)
                   ELSE CanDefine(fakeWindow[s], p, attributes)
       IN  /\ rawWindow' = IF onRaw THEN Define(rawWindow, p, attributes) ELSE rawWindow
           /\ fakeWindow' = IF onRaw THEN fakeWindow
                            ELSE [fakeWindow EXCEPT ![s] = Define(@, p, attributes)]
           /\ call' = <<"defineProperty",
                        IF done /\ DefineInvariantOk(fakeWindow'[s], p, attributes)
                        THEN "return" ELSE "throw">>
    /\ UNCHANGED <<sandboxVars, activeSandboxCount, propertiesWithGetter,
                   updatedValueSet, descriptorTargetMap, scope, legacyVars, containerVars>>

ProxyDeleteProperty(s, p) ==
    /\ sandboxType[s] = "Proxy"
    /\ IF HasOwn(fakeWindow[s], p)
       THEN IF CanDelete(fakeWindow[s], p)
            THEN /\ fakeWindow' = [fakeWindow EXCEPT ![s] = Remove(@, p)]
                 /\ updatedValueSet' = [updatedValueSet EXCEPT ![s] = @ \ {p}]
                 /\ call' = <<"deleteProperty", "return">>
            ELSE /\ call' = <<"deleteProperty", "throw">>
                 /\ UNCHANGED <<fakeWindow, updatedValueSet>>
       ELSE /\ call' = <<"deleteProperty", "return">>
            /\ UNCHANGED <<fakeWindow, updatedValueSet>>
    /\ UNCHANGED <<rawWindow, sandboxVars, activeSandboxCount, propertiesWithGetter,
                   descriptorTargetMap, scope, legacyVars, containerVars>>

ProxyConstruct(s) ==
    /\ sandboxType[s] = "None"
    /\ LET fake == createFakeWindow(rawWindow)
       IN  /\ fakeWindow' = [fakeWindow EXCEPT ![s] = fake.fakeWindow]
           /\ propertiesWithGetter' =
                  [propertiesWithGetter EXCEPT ![s] = fake.propertiesWithGetter]
    /\ sandboxType' = [sandboxType EXCEPT ![s] = "Proxy"]
    /\ sandboxRunning' = [sandboxRunning EXCEPT ![s] = TRUE]
    /\ activeSandboxCount' = activeSandboxCount + 1
    /\ call' = <<"construct", "return">>
    /\ UNCHANGED <<rawWindow, latestSetProp, updatedValueSet, descriptorTargetMap,
                   scope, legacyVars, containerVars>>

\* ProxySandbox.active(): the instance's fields and the counter
ProxyActiveEffect(s) ==
    /\ activeSandboxCount' =
           IF ~sandboxRunning[s] THEN activeSandboxCount + 1 ELSE activeSandboxCount
    /\ sandboxRunning' = [sandboxRunning EXCEPT ![s] = TRUE]
    /\ UNCHANGED <<rawWindow, sandboxType, latestSetProp, fakeWindow,
                   propertiesWithGetter, updatedValueSet, descriptorTargetMap, legacyVars>>

ProxyActive(s) ==
    /\ sandboxType[s] = "Proxy"
    /\ ProxyActiveEffect(s)
    /\ call' = <<"active", "return">>
    /\ UNCHANGED <<scope, containerVars>>

\* inactive(), lines 160-165: variableWhiteList.forEach from entry i on; a
\* delete of a non-configurable property throws and ends the loop
RECURSIVE SweepWhiteList(_, _, _)
SweepWhiteList(s, raw, i) ==
    IF i > Len(variableWhiteList) THEN [window |-> raw, threw |-> FALSE]
    ELSE LET p == variableWhiteList[i]
         IN  IF ProxyHasOwnProperty(s, raw, p)
             THEN IF CanDelete(raw, p)
                  THEN SweepWhiteList(s, Remove(raw, p), i + 1)
                  ELSE [window |-> raw, threw |-> TRUE]
             ELSE SweepWhiteList(s, raw, i + 1)

\* inactive(), line 159
LastSandboxLeft(count) == count = 0

ProxyInactiveSweep(s) ==
    IF LastSandboxLeft(activeSandboxCount - 1)
    THEN SweepWhiteList(s, rawWindow, 1)
    ELSE [window |-> rawWindow, threw |-> FALSE]

\* an inactive() that throws the instance's overlay away
ProxyInactiveForgetting(s) ==
    LET sweep == ProxyInactiveSweep(s)
    IN  /\ activeSandboxCount' = activeSandboxCount - 1
        /\ rawWindow' = sweep.window
        /\ sandboxRunning' = [sandboxRunning EXCEPT ![s] = sweep.threw /\ @]
        /\ fakeWindow' = [fakeWindow EXCEPT ![s] = createFakeWindow(rawWindow).fakeWindow]
        /\ UNCHANGED <<sandboxType, latestSetProp, propertiesWithGetter,
                       updatedValueSet, descriptorTargetMap, legacyVars>>

\* ProxySandbox.inactive(): the instance's fields, the counter and window
ProxyInactiveEffect(s) ==
    LET sweep == ProxyInactiveSweep(s)
    IN  /\ activeSandboxCount' = activeSandboxCount - 1
        /\ rawWindow' = sweep.window
        /\ sandboxRunning' = [sandboxRunning EXCEPT ![s] = sweep.threw /\ @]
        /\ UNCHANGED <<sandboxType, latestSetProp, fakeWindow, propertiesWithGetter,
                       updatedValueSet, descriptorTargetMap, legacyVars>>

ProxyInactive(s) ==
    /\ sandboxType[s] = "Proxy"
    /\ activeSandboxCount > -MaxUnderflow
    /\ ProxyInactiveEffect(s)
    /\ call' = <<"inactive", IF ProxyInactiveSweep(s).threw THEN "throw" ELSE "return">>
    /\ UNCHANGED <<scope, containerVars>>

-----------------------------------------------------------------------------
(* SingularProxySandbox (the legacy sandbox) *)

isPropConfigurable(target, prop) ==
    IF HasOwn(target, prop) THEN target[prop].configurable ELSE TRUE

\* Object.defineProperty(window, prop, { writable: true, configurable: true })
\* followed by window[prop] = value, on a configurable or absent property
RedefineWritable(window, prop, value) ==
    Put(window, prop,
        DataProp(value, TRUE, TRUE,
                 IF HasOwn(window, prop) THEN window[prop].enumerable ELSE FALSE))

\* setWindowProp guards the redefinition
CanRedefine(window, prop) == isPropConfigurable(window, prop) /\ ~IsSymbol(prop)

\* window after setWindowProp(prop, value, toDelete), and whether it threw
setWindowProp(window, prop, value, toDelete) ==
    IF value = Undefined /\ toDelete
    THEN IF CanDelete(window, prop)
         THEN [window |-> Remove(window, prop), threw |-> FALSE]
         ELSE [window |-> window, threw |-> TRUE]
    ELSE IF CanRedefine(window, prop)
         THEN [window |-> RedefineWritable(window, prop, value), threw |-> FALSE]
         ELSE [window |-> window, threw |-> FALSE]

\* map.forEach((v, p) => setWindowProp(p, v)) from entry i on, and
\* map.forEach((_, p) => setWindowProp(p, undefined, true)) when toDelete
RECURSIVE ForEachSetWindowProp(_, _, _, _)
ForEachSetWindowProp(window, map, i, toDelete) ==
    IF i > Len(map) THEN [window |-> window, threw |-> FALSE]
    ELSE LET r == setWindowProp(window, map[i][1],
                                IF toDelete THEN Undefined ELSE map[i][2], toDelete)
         IN  IF r.threw THEN r
             ELSE ForEachSetWindowProp(r.window, map, i + 1, toDelete)

\* setTrap, lines 455-460: the two records of what the run changed
RecordAdded(added, window, p, value) ==
    IF ~HasOwn(window, p) THEN MapSet(added, p, value) ELSE added

RecordModified(modified, window, p, originalValue) ==
    IF HasOwn(window, p) /\ ~MapHas(modified, p)
    THEN MapSet(modified, p, originalValue)
    ELSE modified

\* setTrap(p, value, originalValue, sync2Window) of a running sandbox, where
\* window is the shared object as the trap finds it
SetTrapRunning(s, window, p, value, originalValue, sync2Window) ==
    LET throws == sync2Window /\ ~CanAssign(window, p)
    IN  /\ addedPropsMapInSandbox' = [addedPropsMapInSandbox EXCEPT
                ![s] = RecordAdded(@, window, p, value)]
        /\ modifiedPropsOriginalValueMapInSandbox' =
                [modifiedPropsOriginalValueMapInSandbox EXCEPT
                    ![s] = RecordModified(@, window, p, originalValue)]
        /\ currentUpdatedPropsValueMap' = [currentUpdatedPropsValueMap EXCEPT
                ![s] = MapSet(@, p, value)]
        /\ rawWindow' = IF sync2Window THEN Assign(window, p, value) ELSE window
        /\ latestSetProp' = IF throws THEN latestSetProp
                            ELSE [latestSetProp EXCEPT ![s] = p]

\* a set trap that does not look at sandboxRunning
LegacySetUnguarded(s, p, value) ==
    /\ sandboxType[s] = "LegacyProxy"
    /\ SetTrapRunning(s, rawWindow, p, value, GetValue(rawWindow, p), TRUE)
    /\ call' = <<"set", IF CanAssign(rawWindow, p) THEN "return" ELSE "throw">>
    /\ UNCHANGED <<scope, sandboxType, sandboxRunning, proxyVars, containerVars>>

LegacySet(s, p, value) ==
    /\ sandboxType[s] = "LegacyProxy"
    /\ IF sandboxRunning[s]
       THEN /\ SetTrapRunning(s, rawWindow, p, value, GetValue(rawWindow, p), TRUE)
            /\ call' = <<"set", IF CanAssign(rawWindow, p) THEN "return" ELSE "throw">>
       ELSE /\ call' = <<"set", "return">>
            /\ UNCHANGED <<rawWindow, latestSetProp, legacyVars>>
    /\ UNCHANGED <<scope, sandboxType, sandboxRunning, proxyVars, containerVars>>

LegacyDefineProperty(s, p, attributes) ==
    /\ sandboxType[s] = "LegacyProxy"
    /\ LET originalValue == GetValue(rawWindow, p)
           done == CanDefine(rawWindow, p, attributes)
           window == Define(rawWindow, p, attributes)
       IN  /\ IF sandboxRunning[s]
              THEN SetTrapRunning(s, window, p, GetValue(window, p), originalValue,
                                  FALSE)
              ELSE /\ rawWindow' = window
                   /\ UNCHANGED <<latestSetProp, legacyVars>>
           \* the facade's target owns nothing, so the engine rejects a
           \* non-configurable definition once the trap has returned
           /\ call' = <<"defineProperty",
                        IF done /\ attributes.configurable THEN "return" ELSE "throw">>
    /\ UNCHANGED <<scope, sandboxType, sandboxRunning, proxyVars, containerVars>>

LegacyConstruct(s) ==
    /\ sandboxType[s] = "None"
    /\ sandboxType' = [sandboxType EXCEPT ![s] = "LegacyProxy"]
    /\ sandboxRunning' = [sandboxRunning EXCEPT ![s] = TRUE]
    /\ call' = <<"construct", "return">>
    /\ UNCHANGED <<scope, rawWindow, latestSetProp, proxyVars, legacyVars, containerVars>>

\* SingularProxySandbox.active()
LegacyActiveEffect(s) ==
    /\ rawWindow' = IF ~sandboxRunning[s]
                    THEN ForEachSetWindowProp(rawWindow, currentUpdatedPropsValueMap[s],
                                              1, FALSE).window
                    ELSE rawWindow
    /\ sandboxRunning' = [sandboxRunning EXCEPT ![s] = TRUE]
    /\ UNCHANGED <<sandboxType, latestSetProp, proxyVars, legacyVars>>

LegacyActive(s) ==
    /\ sandboxType[s] = "LegacyProxy"
    /\ LegacyActiveEffect(s)
    /\ call' = <<"active", "return">>
    /\ UNCHANGED <<scope, containerVars>>

\* an inactive() that deletes the added keys before it restores the originals
LegacyInactiveDeleteFirst(s) ==
    LET deleted == ForEachSetWindowProp(rawWindow, addedPropsMapInSandbox[s], 1, TRUE)
    IN  IF deleted.threw THEN deleted
        ELSE ForEachSetWindowProp(
                 deleted.window, modifiedPropsOriginalValueMapInSandbox[s], 1, FALSE)

\* inactive(), lines 436-438: the originals restored, then the added keys deleted
LegacyInactiveRestore(s) ==
    LET restored == ForEachSetWindowProp(
                        rawWindow, modifiedPropsOriginalValueMapInSandbox[s], 1, FALSE)
    IN  ForEachSetWindowProp(restored.window, addedPropsMapInSandbox[s], 1, TRUE)

\* SingularProxySandbox.inactive()
LegacyInactiveEffect(s) ==
    LET cleared == LegacyInactiveRestore(s)
    IN  /\ rawWindow' = cleared.window
        /\ sandboxRunning' = [sandboxRunning EXCEPT ![s] = cleared.threw /\ @]
        /\ UNCHANGED <<sandboxType, latestSetProp, proxyVars, legacyVars>>

LegacyInactive(s) ==
    /\ sandboxType[s] = "LegacyProxy"
    /\ LegacyInactiveEffect(s)
    /\ call' = <<"inactive", IF LegacyInactiveRestore(s).threw THEN "throw" ELSE "return">>
    /\ UNCHANGED <<scope, containerVars>>

\* get trap of the legacy facade, for a key that is none of top, parent,
\* window, self
LegacyGet(window, p) == getTargetValue(GetValue(window, p))

-----------------------------------------------------------------------------
(* Patch layer of the strict sandbox: patchStrictSandbox and the Freer it returns *)

\* most installations of the mount-phase patch that are counted at a time
MaxMountingPatchCount == 2

\* the module's counters and whether document.createElement is intercepted
PatchState ==
    [boot |-> bootstrappingPatchCount, mnt |-> mountingPatchCount,
     patched |-> createElementPatched, restored |-> FALSE]

\* patchStrictSandbox(appName, appWrapperGetter, proxy, mounting): the
\* interception installed if it is not, and the phase's counter incremented
patchStrictSandbox(ps, mounting) ==
    [boot |-> IF mounting THEN ps.boot ELSE ps.boot + 1,
     mnt |-> IF mounting THEN ps.mnt + 1 ELSE ps.mnt,
     patched |-> TRUE,
     restored |-> FALSE]

\* a Freer that looks at the bootstrap counter alone
BootstrappingCountZero(boot, mnt) == boot = 0

\* lines 96-98
AllMicroAppUnmounted(boot, mnt) == mnt = 0 /\ boot = 0

\* free(): the phase's counter decremented, and the original functions
\* restored when both counters are 0
free(ps, mounting) ==
    LET boot == IF ~mounting /\ ps.boot # 0 THEN ps.boot - 1 ELSE ps.boot
        mnt == IF mounting THEN ps.mnt - 1 ELSE ps.mnt
        all == AllMicroAppUnmounted(boot, mnt)
    IN  [boot |-> boot, mnt |-> mnt,
         patched |-> IF all THEN FALSE ELSE ps.patched,
         restored |-> all]

\* the tags whose creation is intercepted
isHijackingTag(tagName) == tagName \in {"script", "style", "link", "iframe", "base"}

Tags == {"style", "div"}

NoElement == [tag |-> Null, config |-> Null]

\* an interception that tags the elements of every tag
ContainerConfigForAnyTag(tagName) ==
    IF /\ currentRunningSandboxProxy # Null
       /\ currentRunningSandboxProxy \in proxyAttachContainerConfigMap
    THEN currentRunningSandboxProxy
    ELSE Null

\* lines 30-38: the ContainerConfig the interception attaches to the element,
\* named by the application it belongs to
ContainerConfigFor(tagName) ==
    IF /\ isHijackingTag(tagName)
       /\ currentRunningSandboxProxy # Null
       /\ currentRunningSandboxProxy \in proxyAttachContainerConfigMap
    THEN currentRunningSandboxProxy
    ELSE Null

\* document.createElement(tagName), intercepted or not
CreateElement(tagName) ==
    /\ createdElement' =
           [tag |-> tagName,
            config |-> IF createElementPatched THEN ContainerConfigFor(tagName)
                       ELSE Null]
    /\ call' = <<"createElement", "return">>
    /\ UNCHANGED <<scope, rawWindow, sandboxVars, proxyVars, legacyVars,
                   mountingFreers, sideEffectsRebuilders, lifecycleTrace,
                   bootstrappingPatchCount, mountingPatchCount, createElementPatched,
                   proxyAttachContainerConfigMap, styleVars>>

\* the dynamic style and link elements of the applications
StyleElements == {"style1", "style2"}

Contains(children, element) == \E i \in DOMAIN children : children[i] = element

\* rawHeadAppendChild.call(appWrapper, element): a node has one place in the
\* tree, so an element that is already a child moves to the end
AppendChild(children, element) ==
    SelectSeq(children, LAMBDA c : c # element) \o <<element>>

\* the patched appendChild of a running strict sandbox: the application adds a
\* style or link element; it is recorded in the ContainerConfig's
\* dynamicStyleSheetElements and attached under the application's wrapper
AppendDynamicStyle(appName, element) ==
    /\ createElementPatched
    /\ appName \in proxyAttachContainerConfigMap
    /\ sandboxRunning[appName]
    /\ dynamicStyleSheetElements' =
           [dynamicStyleSheetElements EXCEPT
               ![appName] = IF Contains(@, element) THEN @ ELSE Append(@, element)]
    /\ wrapperChildren' =
           [wrapperChildren EXCEPT ![appName] = AppendChild(@, element)]
    /\ call' = <<"appendChild", "return">>
    /\ UNCHANGED <<scope, rawWindow, sandboxVars, proxyVars, legacyVars,
                   mountingFreers, sideEffectsRebuilders, lifecycleTrace,
                   bootstrappingPatchCount, mountingPatchCount, createElementPatched,
                   proxyAttachContainerConfigMap, createdElement, reappended>>

\* the wrapper of an application loses a style element: the loader replaces
\* the wrapper's content when it renders the application again
WrapperRemoveChild(appName, element) ==
    /\ Contains(wrapperChildren[appName], element)
    /\ wrapperChildren' =
           [wrapperChildren EXCEPT
               ![appName] = SelectSeq(@, LAMBDA c : c # element)]
    /\ call' = <<"removeChild", "return">>
    /\ UNCHANGED <<scope, rawWindow, sandboxVars, proxyVars, legacyVars,
                   mountingFreers, sideEffectsRebuilders, lifecycleTrace,
                   bootstrappingPatchCount, mountingPatchCount, createElementPatched,
                   proxyAttachContainerConfigMap, createdElement,
                   dynamicStyleSheetElements, reappended>>

-----------------------------------------------------------------------------
(* Sandbox container: createSandboxContainer, mount(), unmount() *)

\* number of patches each phase installs
NumBootstrappingPatchers == 1
NumMountingPatchers == 2

\* a rebuild that appends whatever the wrapper contains
reAppendAlways(dom, element) ==
    [children |-> AppendChild(dom.children, element),
     appended |-> dom.appended \o <<element>>]

\* rebuild, lines 109-117: the callback given to rebuildCSSRules
reAppendElement(dom, element) ==
    IF ~Contains(dom.children, element)
    THEN [children |-> AppendChild(dom.children, element),
          appended |-> dom.appended \o <<element>>]
    ELSE dom

\* rebuildCSSRules(dynamicStyleSheetElements, reAppendElement), from entry i on
RECURSIVE rebuildCSSRules(_, _, _)
rebuildCSSRules(dom, styleSheetElements, i) ==
    IF i > Len(styleSheetElements) THEN dom
    ELSE rebuildCSSRules(reAppendElement(dom, styleSheetElements[i]),
                         styleSheetElements, i + 1)

\* a Freer stands for the patch it releases; the Rebuilder it returns stands
\* for the same patch
Freer(phase, i) == [phase |-> phase, patch |-> i]

patchAtBootstrapping == [i \in 1..NumBootstrappingPatchers |-> Freer("bootstrapping", i)]

patchAtMounting == [i \in 1..NumMountingPatchers |-> Freer("mounting", i)]

\* createSandboxContainer keeps the bootstrap-phase Freers for the container's life
bootstrappingFreers == patchAtBootstrapping

\* the Freer of a phase that patchStrictSandbox returned: the last patch of
\* the phase, after the timer and listener patches
IsStrictSandboxFreer(f) ==
    f.patch = IF f.phase = "mounting" THEN NumMountingPatchers
              ELSE NumBootstrappingPatchers

\* a slice that starts at the head of the array whatever from is
SliceWhole(array, from) == array

\* array.slice(from) and array.slice(0, to)
SliceFrom(array, from) == SubSeq(array, from + 1, Len(array))

SliceTo(array, to) == SubSeq(array, 1, IF to < Len(array) THEN to ELSE Len(array))

Events(kind, items) == [i \in DOMAIN items |-> <<kind, items[i]>>]

\* an unmount() that takes the mount-phase Freers first
MountingFreersFirst(appName) == mountingFreers[appName] \o bootstrappingFreers

\* unmount(), line 108: [...bootstrappingFreers, ...mountingFreers]
UnmountFreers(appName) == bootstrappingFreers \o mountingFreers[appName]

\* [...].map((free) => free()) from entry i on: the patch state after each call
RECURSIVE FreeEach(_, _, _, _)
FreeEach(ps, strict, freers, i) ==
    IF i > Len(freers) THEN <<>>
    ELSE LET after == IF strict /\ IsStrictSandboxFreer(freers[i])
                      THEN free(ps, freers[i].phase = "mounting")
                      ELSE [ps EXCEPT !.restored = FALSE]
         IN  <<after>> \o FreeEach(after, strict, freers, i + 1)

\* rebuilders.forEach((rebuild) => rebuild()) from entry i on: the Rebuilders
\* of patchStrictSandbox go through the recorded elements of the application
RECURSIVE RebuildEach(_, _, _, _)
RebuildEach(dom, styleSheetElements, rebuilders, i) ==
    IF i > Len(rebuilders) THEN dom
    ELSE RebuildEach(IF IsStrictSandboxFreer(rebuilders[i])
                     THEN rebuildCSSRules(dom, styleSheetElements, 1)
                     ELSE dom,
                     styleSheetElements, rebuilders, i + 1)

\* a selection that does not look at window.Proxy
SandboxByLooseFlag(hasProxy, useLooseSandbox) ==
    IF useLooseSandbox THEN "LegacyProxy" ELSE "Proxy"

\* lines 39-46: the sandbox class createSandboxContainer instantiates
SandboxFor(hasProxy, useLooseSandbox) ==
    IF hasProxy
    THEN IF useLooseSandbox THEN "LegacyProxy" ELSE "Proxy"
    ELSE "Snapshot"

\* SnapshotSandbox.active() and inactive(), on a window that holds no key of
\* the applications: the instance's flag
SnapshotEffect(s, running) ==
    /\ sandboxRunning' = [sandboxRunning EXCEPT ![s] = running]
    /\ UNCHANGED <<rawWindow, sandboxType, latestSetProp, proxyVars, legacyVars>>

CreateSandboxContainer(appName, useLooseSandbox) ==
    /\ sandboxType[appName] = "None"
    /\ sandboxType' = [sandboxType EXCEPT
            ![appName] = SandboxFor(windowProxy, useLooseSandbox)]
    /\ sandboxRunning' = [sandboxRunning EXCEPT ![appName] = TRUE]
    /\ IF SandboxFor(windowProxy, useLooseSandbox) # "Proxy"
       THEN UNCHANGED <<proxyVars, bootstrappingPatchCount, mountingPatchCount,
                        createElementPatched, proxyAttachContainerConfigMap,
                        dynamicStyleSheetElements>>
       ELSE LET fake == createFakeWindow(rawWindow)
                ps == patchStrictSandbox(PatchState, FALSE)
            IN  /\ fakeWindow' = [fakeWindow EXCEPT ![appName] = fake.fakeWindow]
                /\ propertiesWithGetter' =
                       [propertiesWithGetter EXCEPT ![appName] = fake.propertiesWithGetter]
                /\ activeSandboxCount' = activeSandboxCount + 1
                /\ bootstrappingPatchCount' = ps.boot
                /\ mountingPatchCount' = ps.mnt
                /\ createElementPatched' = ps.patched
                /\ proxyAttachContainerConfigMap' =
                       proxyAttachContainerConfigMap \cup {appName}
                /\ dynamicStyleSheetElements' =
                       [dynamicStyleSheetElements EXCEPT ![appName] = <<>>]
                /\ UNCHANGED <<updatedValueSet, descriptorTargetMap>>
    /\ mountingFreers' = [mountingFreers EXCEPT ![appName] = <<>>]
    /\ sideEffectsRebuilders' = [sideEffectsRebuilders EXCEPT ![appName] = <<>>]
    /\ call' = <<"createSandboxContainer", "return">>
    /\ UNCHANGED <<scope, rawWindow, latestSetProp, legacyVars, lifecycleTrace,
                   createdElement, wrapperChildren, reappended>>

Mount(appName) ==
    /\ sandboxType[appName] # "None"
    /\ IF sandboxType[appName] = "Proxy"
       THEN /\ mountingPatchCount < MaxMountingPatchCount
            /\ ProxyActiveEffect(appName)
            /\ LET ps == patchStrictSandbox(PatchState, TRUE)
               IN  /\ bootstrappingPatchCount' = ps.boot
                   /\ mountingPatchCount' = ps.mnt
                   /\ createElementPatched' = ps.patched
       ELSE /\ IF sandboxType[appName] = "Snapshot"
               THEN SnapshotEffect(appName, TRUE)
               ELSE LegacyActiveEffect(appName)
            /\ UNCHANGED <<bootstrappingPatchCount, mountingPatchCount,
                           createElementPatched>>
    /\ LET atBootstrapping ==
               SliceTo(sideEffectsRebuilders[appName], Len(bootstrappingFreers))
           atMounting ==
               SliceFrom(sideEffectsRebuilders[appName], Len(bootstrappingFreers))
       IN  lifecycleTrace' = [lifecycleTrace EXCEPT ![appName] =
               <<<<"active", appName>>>> \o Events("rebuild", atBootstrapping)
               \o <<<<"patchAtMounting", appName>>>> \o Events("rebuild", atMounting)]
    /\ LET dom == RebuildEach([children |-> wrapperChildren[appName], appended |-> <<>>],
                              IF sandboxType[appName] = "Proxy"
                              THEN dynamicStyleSheetElements[appName] ELSE <<>>,
                              sideEffectsRebuilders[appName], 1)
       IN  /\ wrapperChildren' = [wrapperChildren EXCEPT ![appName] = dom.children]
           /\ reappended' = [reappended EXCEPT ![appName] = dom.appended]
    /\ mountingFreers' = [mountingFreers EXCEPT ![appName] = patchAtMounting]
    /\ sideEffectsRebuilders' = [sideEffectsRebuilders EXCEPT ![appName] = <<>>]
    /\ call' = <<"mount", "return">>
    /\ UNCHANGED <<scope, proxyAttachContainerConfigMap, createdElement,
                   dynamicStyleSheetElements>>

Unmount(appName) ==
    /\ sandboxType[appName] # "None"
    /\ LET freers == UnmountFreers(appName)
           freed == FreeEach(PatchState, sandboxType[appName] = "Proxy", freers, 1)
           threw == IF sandboxType[appName] = "Proxy"
                    THEN ProxyInactiveSweep(appName).threw
                    ELSE LegacyInactiveRestore(appName).threw
       IN  /\ sideEffectsRebuilders' = [sideEffectsRebuilders EXCEPT ![appName] = freers]
           /\ lifecycleTrace' = [lifecycleTrace EXCEPT ![appName] =
                  [i \in DOMAIN freers |-> <<"free", freers[i], freed[i]>>]
                  \o <<<<"inactive", appName>>>>]
           /\ bootstrappingPatchCount' = freed[Len(freed)].boot
           /\ mountingPatchCount' = freed[Len(freed)].mnt
           /\ createElementPatched' = freed[Len(freed)].patched
           /\ call' = <<"unmount", IF threw THEN "throw" ELSE "return">>
    /\ IF sandboxType[appName] = "Proxy"
       THEN activeSandboxCount > -MaxUnderflow /\ ProxyInactiveEffect(appName)
       ELSE IF sandboxType[appName] = "Snapshot"
       THEN SnapshotEffect(appName, FALSE)
       ELSE LegacyInactiveEffect(appName)
    /\ UNCHANGED <<scope, mountingFreers, proxyAttachContainerConfigMap, createdElement,
                   styleVars>>

-----------------------------------------------------------------------------
(* The loader (src/unnamed/part_001): loadApp and the mount and unmount chains
   it hands to single-spa.  Every function of a chain is one action, since
   single-spa awaits each before it calls the next; a chain whose function
   throws is rejected and single-spa runs no more of it. *)

\* how many Deferreds the mount chains may create
MaxDeferreds == 3

\* what loadApp takes from the application and from the configuration
Configs ==
    [legacyRender : BOOLEAN, strictStyleIsolation : BOOLEAN, scopedCSS : BOOLEAN,
     loose : BOOLEAN, singular : BOOLEAN]

NoConfig ==
    [legacyRender |-> FALSE, strictStyleIsolation |-> FALSE, scopedCSS |-> FALSE,
     loose |-> FALSE, singular |-> FALSE]

Status(status, step) == [status |-> status, step |-> step]

NoError == [kind |-> Null, app |-> Null, phase |-> Null]

\* a QiankunError, by what its message names
QiankunError(kind, appName, phase) == [kind |-> kind, app |-> appName, phase |-> phase]

RenderPhases == {"loading", "mounting", "mounted", "unmounted"}

\* a render that asserts the container in every phase
renderInEveryPhase(appName, legacyRender, hasContainer, phase) ==
    IF legacyRender THEN NoError
    ELSE IF ~hasContainer THEN QiankunError("container", appName, phase)
    ELSE NoError

\* getRender, lines 164-213: the error render throws, NoError when it returns
render(appName, legacyRender, hasContainer, phase) ==
    IF legacyRender THEN NoError
    ELSE IF phase # "unmounted" /\ ~hasContainer
         THEN QiankunError("container", appName, phase)
    ELSE NoError

\* the function getAppWrapperGetter returns, lines 130-147: the error a call
\* of it throws, NoError when it returns the wrapper
appWrapperGetter(appName, config, hasWrapper, phase) ==
    IF config.legacyRender /\ config.strictStyleIsolation
    THEN QiankunError("strictStyleIsolation", appName, phase)
    ELSE IF config.legacyRender /\ config.scopedCSS
    THEN QiankunError("experimentalStyleIsolation", appName, phase)
    ELSE IF ~hasWrapper THEN QiankunError("wrapper", appName, phase)
    ELSE NoError

\* the wrapper element is found: the element of a legacy render lives in the
\* document, the loader's own element is kept by the loader until unmounted
HasWrapper(config) == config.legacyRender => containerExists

\* a chain function ends: the chain goes on to next, or is rejected with error
ChainStep(appName, error, status, step) ==
    /\ appStatus' = [appStatus EXCEPT ![appName] =
           IF error = NoError THEN Status(status, step)
           ELSE Status("SKIP_BECAUSE_BROKEN", "none")]
    /\ lastError' = [lastError EXCEPT ![appName] = IF error = NoError THEN @ ELSE error]

sandboxFixed == <<scope, rawWindow, sandboxVars, proxyVars, legacyVars, containerVars>>

\* lines 300-302 and 412-419: the Deferred the caller waits for, 0 for none
Gate(config) ==
    IF config.singular /\ prevAppUnmountedDeferred # 0
    THEN prevAppUnmountedDeferred
    ELSE 0

\* loadApp up to its wait for the previous application, lines 257-302
LoadApp(appName, config) ==
    /\ appStatus[appName] = Status("NOT_LOADED", "none")
    /\ appConfig' = [appConfig EXCEPT ![appName] = config]
    /\ awaitedDeferred' = [awaitedDeferred EXCEPT ![appName] = Gate(config)]
    /\ appStatus' = [appStatus EXCEPT ![appName] = Status("LOADING_SOURCE_CODE", "setup")]
    /\ call' = <<"loadApp", "await">>
    /\ UNCHANGED <<sandboxFixed, windowProxy, containerExists, prevAppUnmountedDeferred,
                   deferredCount, resolvedDeferreds, lastError>>

Resolved(appName) ==
    awaitedDeferred[appName] = 0 \/ awaitedDeferred[appName] \in resolvedDeferreds

\* loadApp from the wrapper element to the sandbox container, lines 305-363
LoadAppSetup(appName) ==
    /\ appStatus[appName] = Status("LOADING_SOURCE_CODE", "setup")
    /\ Resolved(appName)
    /\ LET error == render(appName, appConfig[appName].legacyRender, containerExists,
                           "loading")
       IN  /\ ChainStep(appName, error, "NOT_MOUNTED", "none")
           /\ IF error = NoError
              THEN CreateSandboxContainer(appName, appConfig[appName].loose)
              ELSE /\ call' = <<"loadApp", "throw">>
                   /\ UNCHANGED sandboxFixed
    /\ awaitedDeferred' = [awaitedDeferred EXCEPT ![appName] = 0]
    /\ UNCHANGED <<windowProxy, appConfig, containerExists, prevAppUnmountedDeferred,
                   deferredCount, resolvedDeferreds>>

\* a chain function that touches neither the sandbox nor the Deferred
LoaderStep(appName, error, status, step, name) ==
    /\ ChainStep(appName, error, status, step)
    /\ call' = <<name, IF error = NoError THEN "return" ELSE "throw">>
    /\ UNCHANGED <<sandboxFixed, windowProxy, appConfig, containerExists,
                   prevAppUnmountedDeferred, deferredCount, resolvedDeferreds,
                   awaitedDeferred>>

\* mount chain, lines 412-419: wait for the previous application
MountGate(appName) ==
    /\ appStatus[appName] = Status("NOT_MOUNTED", "none")
    /\ awaitedDeferred' = [awaitedDeferred EXCEPT ![appName] = Gate(appConfig[appName])]
    /\ appStatus' = [appStatus EXCEPT ![appName] = Status("MOUNTING", "gate")]
    /\ call' = <<"gate", "await">>
    /\ UNCHANGED <<sandboxFixed, windowProxy, appConfig, containerExists,
                   prevAppUnmountedDeferred, deferredCount, resolvedDeferreds, lastError>>

\* the promise the gate returned is resolved, or the gate returned undefined
MountGatePassed(appName) ==
    /\ appStatus[appName] = Status("MOUNTING", "gate")
    /\ Resolved(appName)
    /\ awaitedDeferred' = [awaitedDeferred EXCEPT ![appName] = 0]
    /\ appStatus' = [appStatus EXCEPT ![appName] = Status("MOUNTING", "wrapper")]
    /\ call' = <<"gate", "return">>
    /\ UNCHANGED <<sandboxFixed, windowProxy, appConfig, containerExists,
                   prevAppUnmountedDeferred, deferredCount, resolvedDeferreds, lastError>>

\* lines 422-432: the wrapper getter is created, not called
MountWrapperGetter(appName) ==
    /\ appStatus[appName] = Status("MOUNTING", "wrapper")
    /\ LoaderStep(appName, NoError, "MOUNTING", "render", "getAppWrapperGetter")

\* lines 434-444
MountRender(appName) ==
    /\ appStatus[appName] = Status("MOUNTING", "render")
    /\ LoaderStep(appName,
                  render(appName, appConfig[appName].legacyRender, containerExists,
                         "mounting"),
                  "MOUNTING", "mountSandbox", "render")

\* a mount chain that goes on to beforeMount without mounting the sandbox
MountSandboxSkipped(appName) ==
    /\ appStatus[appName] = Status("MOUNTING", "mountSandbox")
    /\ LoaderStep(appName, NoError, "MOUNTING", "beforeMount", "mountSandbox")

\* line 446: mountSandbox
MountSandbox(appName) ==
    /\ appStatus[appName] = Status("MOUNTING", "mountSandbox")
    /\ Mount(appName)
    /\ ChainStep(appName, NoError, "MOUNTING", "beforeMount")
    /\ UNCHANGED <<windowProxy, appConfig, containerExists, prevAppUnmountedDeferred,
                   deferredCount, resolvedDeferreds, awaitedDeferred>>

\* line 449
MountBeforeMount(appName) ==
    /\ appStatus[appName] = Status("MOUNTING", "beforeMount")
    /\ LoaderStep(appName, NoError, "MOUNTING", "mount", "beforeMount")

\* line 451: the application's mount, given appWrapperGetter()
MountApp(appName) ==
    /\ appStatus[appName] = Status("MOUNTING", "mount")
    /\ LoaderStep(appName,
                  appWrapperGetter(appName, appConfig[appName],
                                   HasWrapper(appConfig[appName]), "mounting"),
                  "MOUNTING", "rendered", "mount")

\* line 453
MountRendered(appName) ==
    /\ appStatus[appName] = Status("MOUNTING", "rendered")
    /\ LoaderStep(appName,
                  render(appName, appConfig[appName].legacyRender, containerExists,
                         "mounted"),
                  "MOUNTING", "afterMount", "render")

\* line 455
MountAfterMount(appName) ==
    /\ appStatus[appName] = Status("MOUNTING", "afterMount")
    /\ LoaderStep(appName, NoError, "MOUNTING", "deferred", "afterMount")

\* lines 457-461: the Deferred of this mount
MountDeferred(appName) ==
    /\ appStatus[appName] = Status("MOUNTING", "deferred")
    /\ IF appConfig[appName].singular
       THEN /\ deferredCount < MaxDeferreds
            /\ deferredCount' = deferredCount + 1
            /\ prevAppUnmountedDeferred' = deferredCount + 1
       ELSE UNCHANGED <<deferredCount, prevAppUnmountedDeferred>>
    /\ ChainStep(appName, NoError, "MOUNTED", "none")
    /\ call' = <<"deferred", "return">>
    /\ UNCHANGED <<sandboxFixed, windowProxy, appConfig, containerExists,
                   resolvedDeferreds, awaitedDeferred>>

\* unmount chain, line 471
UnmountBeforeUnmount(appName) ==
    /\ appStatus[appName] = Status("MOUNTED", "none")
    /\ LoaderStep(appName, NoError, "UNMOUNTING", "unmount", "beforeUnmount")

\* line 473: the application's unmount, given appWrapperGetter()
UnmountApp(appName) ==
    /\ appStatus[appName] = Status("UNMOUNTING", "unmount")
    /\ LoaderStep(appName,
                  appWrapperGetter(appName, appConfig[appName],
                                   HasWrapper(appConfig[appName]), "unmounting"),
                  "UNMOUNTING", "unmountSandbox", "unmount")

\* line 475: unmountSandbox
UnmountSandbox(appName) ==
    /\ appStatus[appName] = Status("UNMOUNTING", "unmountSandbox")
    /\ Unmount(appName)
    /\ ChainStep(appName, NoError, "UNMOUNTING", "afterUnmount")
    /\ UNCHANGED <<windowProxy, appConfig, containerExists, prevAppUnmountedDeferred,
                   deferredCount, resolvedDeferreds, awaitedDeferred>>

\* line 477
UnmountAfterUnmount(appName) ==
    /\ appStatus[appName] = Status("UNMOUNTING", "afterUnmount")
    /\ LoaderStep(appName, NoError, "UNMOUNTING", "render", "afterUnmount")

\* lines 479-485
UnmountRender(appName) ==
    /\ appStatus[appName] = Status("UNMOUNTING", "render")
    /\ LoaderStep(appName,
                  render(appName, appConfig[appName].legacyRender, containerExists,
                         "unmounted"),
                  "UNMOUNTING", "resolve", "render")

\* lines 486-490: the current Deferred is resolved
UnmountResolve(appName) ==
    /\ appStatus[appName] = Status("UNMOUNTING", "resolve")
    /\ resolvedDeferreds' =
           IF appConfig[appName].singular /\ prevAppUnmountedDeferred # 0
           THEN resolvedDeferreds \cup {prevAppUnmountedDeferred}
           ELSE resolvedDeferreds
    /\ ChainStep(appName, NoError, "NOT_MOUNTED", "none")
    /\ call' = <<"resolve", "return">>
    /\ UNCHANGED <<sandboxFixed, windowProxy, appConfig, containerExists,
                   prevAppUnmountedDeferred, deferredCount, awaitedDeferred>>

\* the page removes the container element from the document, or puts it back
ContainerChange ==
    /\ containerExists' = ~containerExists
    /\ call' = <<"host", "return">>
    /\ UNCHANGED <<sandboxFixed, windowProxy, appConfig, appStatus,
                   prevAppUnmountedDeferred, deferredCount, resolvedDeferreds,
                   awaitedDeferred, lastError>>

\* registerMicroApps(apps), part_000 lines 24-63: the applications not yet
\* registered are added and handed to single-spa
RegisterMicroApps(apps) ==
    /\ microApps' = microApps \cup apps
    /\ call' = <<"registerMicroApps", "return">>
    /\ UNCHANGED <<sandboxFixed, windowProxy, appConfig, appStatus, containerExists,
                   prevAppUnmountedDeferred, deferredCount, resolvedDeferreds,
                   awaitedDeferred, lastError, frameworkConfiguration,
                   frameworkStarted, loadRequested>>

\* single-spa calls the loading function of a registered application, lines
\* 44-48: loader(true), then the wait for frameworkStartedDefer
AppLoadingFunction(appName) ==
    /\ appName \in microApps
    /\ loadRequested[appName] = "no"
    /\ loadRequested' = [loadRequested EXCEPT
           ![appName] = IF frameworkStarted THEN "afterStart" ELSE "beforeStart"]
    /\ call' = <<"loader", "await">>
    /\ UNCHANGED <<sandboxFixed, windowProxy, appConfig, appStatus, containerExists,
                   prevAppUnmountedDeferred, deferredCount, resolvedDeferreds,
                   awaitedDeferred, lastError, microApps, frameworkConfiguration,
                   frameworkStarted>>

\* the options of start() that the loader reads
StartOptions ==
    {c \in Configs : c.singular /\ ~c.legacyRender /\ ~c.strictStyleIsolation
                     /\ ~c.scopedCSS}

\* start(opts), lines 208-243: without window.Proxy the sandbox is made loose;
\* frameworkStartedDefer is resolved
Start(opts) ==
    /\ frameworkConfiguration' =
           IF ~windowProxy THEN [opts EXCEPT !.loose = TRUE] ELSE opts
    /\ frameworkStarted' = TRUE
    /\ call' = <<"start", "return">>
    /\ UNCHANGED <<sandboxFixed, windowProxy, appConfig, appStatus, containerExists,
                   prevAppUnmountedDeferred, deferredCount, resolvedDeferreds,
                   awaitedDeferred, lastError, microApps, loadRequested>>

\* a loading function that does not wait for start()
LoadWithoutStart(appName) ==
    /\ loadRequested[appName] # "no"
    /\ LoadApp(appName, frameworkConfiguration)
    /\ UNCHANGED startVars

\* the loading function goes on after its wait, lines 48-53: loadApp with the
\* frameworkConfiguration of now
LoadAfterStart(appName) ==
    /\ loadRequested[appName] # "no"
    /\ frameworkStarted
    /\ LoadApp(appName, frameworkConfiguration)
    /\ UNCHANGED startVars

NoLoads ==
    /\ microApps = {}
    /\ frameworkConfiguration = NoConfig
    /\ frameworkStarted = FALSE
    /\ loadRequested = [a \in Apps |-> "no"]
    /\ appConfig = [a \in Apps |-> NoConfig]
    /\ appStatus = [a \in Apps |-> Status("NOT_LOADED", "none")]
    /\ containerExists = TRUE
    /\ prevAppUnmountedDeferred = 0
    /\ deferredCount = 0
    /\ resolvedDeferreds = {}
    /\ awaitedDeferred = [a \in Apps |-> 0]
    /\ lastError = [a \in Apps |-> NoError]

-----------------------------------------------------------------------------
(* The host page writes window directly *)

HostSet(p, value) ==
    /\ CanAssign(rawWindow, p)
    /\ rawWindow' = Assign(rawWindow, p, value)
    /\ call' = <<"host", "return">>
    /\ UNCHANGED <<scope, sandboxVars, proxyVars, legacyVars, containerVars>>

\* the getter of a property of window returns another value than before
HostGetterReturns(p, value) ==
    /\ HasOwn(rawWindow, p)
    /\ rawWindow[p].getter
    /\ rawWindow' = [rawWindow EXCEPT ![p].val = value]
    /\ call' = <<"host", "return">>
    /\ UNCHANGED <<scope, sandboxVars, proxyVars, legacyVars, containerVars>>

-----------------------------------------------------------------------------
(* The get trap of the multi-instance facade, and the marker of the sandbox
   that is executing *)

UnscopablesKey == "Symbol.unscopables"

\* what a read returns: a plain value, a facade, or an object of the page
Plain(v) == [ref |-> "value", of |-> Null, val |-> v]
ProxyRef(s) == [ref |-> "proxy", of |-> s, val |-> Undefined]
Native(name) == [ref |-> name, of |-> Null, val |-> Undefined]
NoValue == Native(Null)

\* a get trap that marks the sandbox only after the self-referential keys
\* have returned
MarksAfterSelfReferences(p) ==
    p \notin {UnscopablesKey, "window", "self", "globalThis", "top", "parent"}

\* line 232: the read of Symbol.unscopables returns before the marker is set
MarksSandbox(p) == p # UnscopablesKey

\* a get trap that resolves every key like an ordinary one
ProxyGetTrapByValue(s, raw, p) == Plain(ProxyGet(s, raw, p))

\* get trap, lines 232-288: the value returned
ProxyGetTrap(s, raw, p) ==
    IF p = UnscopablesKey THEN Native("unscopables")
    ELSE IF p \in {"window", "self"} THEN ProxyRef(s)
    ELSE IF p = "globalThis" THEN ProxyRef(s)
    ELSE IF p \in {"top", "parent"}
         THEN IF isTopWindow THEN ProxyRef(s) ELSE Plain(GetValue(raw, p))
    ELSE IF p = "hasOwnProperty" THEN Native("hasOwnProperty")
    ELSE IF p \in {"document", "eval"} THEN Native(p)
    ELSE Plain(ProxyGet(s, raw, p))

\* a nextTask that drops the callback
NextTaskDropped(pending) == pending

\* nextTask(cb): cb waits for the next tick
nextTask(pending) == TRUE

\* a read of proxy[p]
ProxyRead(s, p) ==
    /\ sandboxType[s] = "Proxy"
    /\ returned' = ProxyGetTrap(s, rawWindow, p)
    /\ IF MarksSandbox(p)
       THEN /\ currentRunningSandboxProxy' = s
            /\ nextTaskPending' = nextTask(nextTaskPending)
       ELSE UNCHANGED <<currentRunningSandboxProxy, nextTaskPending>>
    /\ call' = <<"get", "return">>
    /\ UNCHANGED <<scope, rawWindow, sandboxVars, proxyVars, legacyVars, containerVars,
                   isTopWindow>>

\* get trap of the legacy facade, lines 490-501: the value returned; the
\* globalThis of window is window itself
LegacyGetTrap(s, raw, p) ==
    IF p \in {"top", "parent", "window", "self"} THEN ProxyRef(s)
    ELSE IF p = "globalThis" THEN Native("window")
    ELSE Plain(LegacyGet(raw, p))

\* a read of proxy[p] through the legacy facade
LegacyRead(s, p) ==
    /\ sandboxType[s] = "LegacyProxy"
    /\ returned' = LegacyGetTrap(s, rawWindow, p)
    /\ call' = <<"get", "return">>
    /\ UNCHANGED <<scope, rawWindow, sandboxVars, proxyVars, legacyVars, containerVars,
                   currentRunningSandboxProxy, nextTaskPending, isTopWindow>>

\* the next tick of the scheduler: the callbacks of nextTask run
Tick ==
    /\ nextTaskPending
    /\ currentRunningSandboxProxy' = Null
    /\ nextTaskPending' = FALSE
    /\ call' = <<"tick", "return">>
    /\ UNCHANGED <<scope, rawWindow, sandboxVars, proxyVars, legacyVars, containerVars,
                   returned, isTopWindow>>

-----------------------------------------------------------------------------
(* Lifecycle discovery: getLifecyclesFromExports, called by loadApp with the
   exports of the entry script, the facade and the sandbox's latestSetProp *)

\* the values that stand for an object with bootstrap, mount and unmount
\* functions; every other value stands for anything else
validateExportLifecycle(exports) == exports # Undefined /\ exports % 2 = 1

\* if (globalLatestSetProp): null, undefined and the empty string are falsy
Truthy(key) == key # Null /\ key # ""

\* part_001 lines 215-247: the lifecycles returned, or the error thrown
getLifecyclesFromExports(scriptExports, appName, s, raw, globalLatestSetProp) ==
    IF validateExportLifecycle(scriptExports)
    THEN [lifecycles |-> scriptExports, error |-> NoError]
    ELSE IF /\ Truthy(globalLatestSetProp)
            /\ validateExportLifecycle(ProxyGet(s, raw, globalLatestSetProp))
    THEN [lifecycles |-> ProxyGet(s, raw, globalLatestSetProp), error |-> NoError]
    ELSE IF validateExportLifecycle(ProxyGet(s, raw, appName))
    THEN [lifecycles |-> ProxyGet(s, raw, appName), error |-> NoError]
    ELSE [lifecycles |-> Undefined,
          error |-> QiankunError("lifecycle", appName, "loading")]

\* loadApp, lines 379-385: the lifecycles of the application are looked for
\* once its entry script has run and returned scriptExports
DiscoverLifecycles(appName, scriptExports) ==
    /\ sandboxType[appName] = "Proxy"
    /\ LET found == getLifecyclesFromExports(scriptExports, appName, appName, rawWindow,
                                             latestSetProp[appName])
       IN  /\ returned' = IF found.error = NoError THEN Plain(found.lifecycles) ELSE NoValue
           /\ lastError' = [lastError EXCEPT ![appName] = found.error]
           /\ call' = <<"getLifecyclesFromExports",
                        IF found.error = NoError THEN "return" ELSE "throw">>
    /\ IF validateExportLifecycle(scriptExports)
       THEN UNCHANGED <<currentRunningSandboxProxy, nextTaskPending>>
       ELSE /\ currentRunningSandboxProxy' = appName
            /\ nextTaskPending' = nextTask(nextTaskPending)
    /\ UNCHANGED <<scope, rawWindow, sandboxVars, proxyVars, legacyVars, containerVars,
                   isTopWindow, windowProxy, appConfig, appStatus, containerExists,
                   prevAppUnmountedDeferred, deferredCount, resolvedDeferreds,
                   awaitedDeferred, startVars>>

-----------------------------------------------------------------------------
(* Observers: they record what happened and change nothing of the program *)

NoHistory ==
    [runStart |-> EmptyObject, assigned |-> {}, everAssigned |-> {}, added |-> {},
     beforeInactive |-> EmptyObject, endedRun |-> FALSE]

\* history of the legacy sandbox s:
\*   runStart        window as it was when the present run began
\*   assigned        the keys assigned through the facade during the present run
\*   everAssigned    the keys assigned through the facade in any run
\*   added           those of them that window did not own when first assigned
\*   beforeInactive  window as it was when inactive() was last called
\*   endedRun        the latest call was an inactive() of the running sandbox
ObserveLegacy(s) ==
    LET begins == call'[1] = "construct" \/ (call'[1] = "active" /\ ~sandboxRunning[s])
        assigns == call' = <<"set", "return">> /\ sandboxRunning[s]
        p == latestSetProp'[s]
    IN  history' =
            [runStart |-> IF begins THEN rawWindow ELSE history.runStart,
             assigned |-> IF begins THEN {}
                          ELSE IF assigns THEN history.assigned \cup {p}
                          ELSE history.assigned,
             everAssigned |-> IF assigns THEN history.everAssigned \cup {p}
                              ELSE history.everAssigned,
             added |-> IF assigns /\ p \notin history.everAssigned /\ ~HasOwn(rawWindow, p)
                       THEN history.added \cup {p}
                       ELSE history.added,
             beforeInactive |->
                IF call'[1] = "inactive" THEN rawWindow ELSE history.beforeInactive,
             endedRun |-> call'[1] = "inactive" /\ sandboxRunning[s]]

\* the allow-list keys window owns whose latest write was a sandbox's write-back
ObserveEscaped ==
    escaped' = {p \in DOMAIN rawWindow' :
                   /\ InWhiteList(p)
                   /\ IF call'[1] = "host" THEN p \in escaped /\ rawWindow'[p] = rawWindow[p]
                      ELSE IF call' = <<"set", "return">>
                           THEN p \in escaped \/ ~HasOwn(rawWindow, p)
                                \/ rawWindow'[p] # rawWindow[p]
                      ELSE p \in escaped}

-----------------------------------------------------------------------------
(* Specification of the multi-instance sandboxes *)

ProxyKeys == {"foo", "System"}

NoSandboxes ==
    /\ NoLoads
    /\ activeSandboxCount = 0
    /\ sandboxType = [s \in Apps |-> "None"]
    /\ sandboxRunning = [s \in Apps |-> FALSE]
    /\ latestSetProp = [s \in Apps |-> Null]
    /\ fakeWindow = [s \in Apps |-> EmptyObject]
    /\ propertiesWithGetter = [s \in Apps |-> {}]
    /\ updatedValueSet = [s \in Apps |-> {}]
    /\ descriptorTargetMap = [s \in Apps |-> [k \in {} |-> "target"]]
    /\ addedPropsMapInSandbox = [s \in Apps |-> EmptyMap]
    /\ modifiedPropsOriginalValueMapInSandbox = [s \in Apps |-> EmptyMap]
    /\ currentUpdatedPropsValueMap = [s \in Apps |-> EmptyMap]
    /\ mountingFreers = [s \in Apps |-> <<>>]
    /\ sideEffectsRebuilders = [s \in Apps |-> <<>>]
    /\ lifecycleTrace = [s \in Apps |-> <<>>]
    /\ bootstrappingPatchCount = 0
    /\ mountingPatchCount = 0
    /\ createElementPatched = FALSE
    /\ proxyAttachContainerConfigMap = {}
    /\ createdElement = NoElement
    /\ dynamicStyleSheetElements = [a \in Apps |-> <<>>]
    /\ wrapperChildren = [a \in Apps |-> <<>>]
    /\ reappended = [a \in Apps |-> <<>>]
    /\ currentRunningSandboxProxy = Null
    /\ nextTaskPending = FALSE
    /\ returned = NoValue
    /\ call = <<"none", "return">>
    /\ history = NoHistory
    /\ escaped = {}
    /\ creator = Host

InitProxy ==
    /\ scope \in {{k} : k \in ProxyKeys}
    /\ rawWindow \in HostWindows(scope)
    /\ isTopWindow = TRUE
    /\ windowProxy = TRUE
    /\ NoSandboxes

WatchProxy == ObserveEscaped /\ UNCHANGED <<history, creator, readVars, loaderVars>>

\* construction, activation, assignment and deletion by two sandboxes
NextProxy ==
    \/ \E s \in Apps : ProxyConstruct(s) /\ WatchProxy
    \/ \E s \in Apps : ProxyActive(s) /\ WatchProxy
    \/ \E s \in Apps : ProxyInactive(s) /\ WatchProxy
    \/ \E s \in Apps, p \in scope, v \in AppValues : ProxySet(s, p, v) /\ WatchProxy
    \/ \E s \in Apps, p \in scope : ProxyDeleteProperty(s, p) /\ WatchProxy
    \/ \E p \in scope, v \in AppValues : HostSet(p, v) /\ WatchProxy

SpecProxy == InitProxy /\ [][NextProxy]_vars

\* one sandbox, with property definitions through the facade as well
NextProxyDefine ==
    \/ ProxyConstruct("A") /\ UNCHANGED <<readVars, loaderVars, observerVars>>
    \/ ProxyActive("A") /\ UNCHANGED <<readVars, loaderVars, observerVars>>
    \/ ProxyInactive("A") /\ UNCHANGED <<readVars, loaderVars, observerVars>>
    \/ \E p \in scope, v \in AppValues : ProxySet("A", p, v) /\ UNCHANGED <<readVars, loaderVars, observerVars>>
    \/ \E p \in scope : ProxyDeleteProperty("A", p) /\ UNCHANGED <<readVars, loaderVars, observerVars>>
    \/ \E p \in scope, v \in AppValues : HostSet(p, v) /\ UNCHANGED <<readVars, loaderVars, observerVars>>
    \/ \E p \in scope : ProxyGetOwnPropertyDescriptor("A", p) /\ UNCHANGED <<readVars, loaderVars, observerVars>>
    \/ \E p \in scope, d \in DefineAttributes :
           ProxyDefineProperty("A", p, d) /\ UNCHANGED <<readVars, loaderVars, observerVars>>
    \/ \E p \in scope, v \in AppValues :
           HostGetterReturns(p, v) /\ UNCHANGED <<readVars, loaderVars, observerVars>>
    \/ \E p \in scope : ProxyRead("A", p) /\ UNCHANGED <<loaderVars, observerVars>>

SpecProxyDefine == InitProxy /\ [][NextProxyDefine]_vars

-----------------------------------------------------------------------------
(* Specification of one legacy sandbox *)

LegacyKeys == {"foo", "symA"}

NoneRunning == \A s \in Apps : ~sandboxRunning[s]

InitLegacy ==
    /\ scope \in {{k} : k \in LegacyKeys}
    /\ rawWindow \in HostWindows(scope)
    /\ isTopWindow = TRUE
    /\ windowProxy = TRUE
    /\ NoSandboxes

WatchLegacy == ObserveLegacy("A") /\ UNCHANGED <<escaped, creator, readVars, loaderVars>>

\* construction, activation and assignment; the host writes between runs
NextLegacy ==
    \/ LegacyConstruct("A") /\ WatchLegacy
    \/ LegacyActive("A") /\ WatchLegacy
    \/ LegacyInactive("A") /\ WatchLegacy
    \/ \E p \in scope, v \in Values : LegacySet("A", p, v) /\ WatchLegacy
    \/ \E p \in scope, v \in AppValues : NoneRunning /\ HostSet(p, v) /\ WatchLegacy

SpecLegacy == InitLegacy /\ [][NextLegacy]_vars

\* with property definitions through the facade as well
NextLegacyDefine ==
    \/ LegacyConstruct("A") /\ UNCHANGED <<readVars, loaderVars, observerVars>>
    \/ LegacyActive("A") /\ UNCHANGED <<readVars, loaderVars, observerVars>>
    \/ LegacyInactive("A") /\ UNCHANGED <<readVars, loaderVars, observerVars>>
    \/ \E p \in scope, v \in Values : LegacySet("A", p, v) /\ UNCHANGED <<readVars, loaderVars, observerVars>>
    \/ \E p \in scope, v \in AppValues :
           NoneRunning /\ HostSet(p, v) /\ UNCHANGED <<readVars, loaderVars, observerVars>>
    \/ \E p \in scope, d \in DefineAttributes :
           LegacyDefineProperty("A", p, d) /\ UNCHANGED <<readVars, loaderVars, observerVars>>

SpecLegacyDefine == InitLegacy /\ [][NextLegacyDefine]_vars

-----------------------------------------------------------------------------
(* Specification of the sandbox containers of two applications *)

InitContainer ==
    /\ scope = {"foo"}
    /\ rawWindow \in HostWindows(scope)
    /\ isTopWindow = TRUE
    /\ windowProxy = TRUE
    /\ NoSandboxes

NextContainer ==
    \/ \E a \in Apps, loose \in BOOLEAN :
           CreateSandboxContainer(a, loose) /\ UNCHANGED <<readVars, loaderVars, observerVars>>
    \/ \E a \in Apps : Mount(a) /\ UNCHANGED <<readVars, loaderVars, observerVars>>
    \/ \E a \in Apps : Unmount(a) /\ UNCHANGED <<readVars, loaderVars, observerVars>>
    \/ \E a \in Apps, p \in scope, v \in AppValues :
           ProxySet(a, p, v) /\ UNCHANGED <<readVars, loaderVars, observerVars>>
    \/ \E a \in Apps, p \in scope, v \in AppValues :
           LegacySet(a, p, v) /\ UNCHANGED <<readVars, loaderVars, observerVars>>

SpecContainer == InitContainer /\ [][NextContainer]_vars

-----------------------------------------------------------------------------
(* Properties of the multi-instance sandboxes, under SpecProxy *)

\* the part of window that is outside the allow-list
NonWhiteListed(window) ==
    [p \in {k \in DOMAIN window : ~InWhiteList(k)} |-> window[p]]

\* C1: an assignment or a deletion through a ProxySandbox facade, on a key
\* outside the allow-list, and a deactivation of the sandbox, leave every
\* property of window that is outside the allow-list as it was: none is added,
\* changed or removed.
C1_FacadeWritesStayOffWindow ==
    [][(\E s \in Apps :
            \/ \E p \in scope, v \in AppValues : ~InWhiteList(p) /\ ProxySet(s, p, v)
            \/ \E p \in scope : ~InWhiteList(p) /\ ProxyDeleteProperty(s, p)
            \/ ProxyInactive(s))
        => NonWhiteListed(rawWindow') = NonWhiteListed(rawWindow)]_vars

\* sandbox A assigned foo and was deactivated, and window has no foo
C1_Witness ==
    /\ call = <<"inactive", "return">>
    /\ ~sandboxRunning["A"]
    /\ "foo" \in updatedValueSet["A"]
    /\ ~HasOwn(rawWindow, "foo")

\* C2: what sandbox b reads through its facade for a key outside the allow-list
\* is not changed by an assignment or a deletion through the facade of another
\* sandbox a.
C2_ReadsIndependentOfOtherSandbox ==
    [][\A a \in Apps, b \in Apps, p \in scope :
          (/\ a # b
           /\ sandboxType[b] = "Proxy"
           /\ ~InWhiteList(p)
           /\ \/ \E k \in scope, v \in AppValues : ProxySet(a, k, v)
              \/ \E k \in scope : ProxyDeleteProperty(a, k))
          => ProxyGet(b, rawWindow, p)' = ProxyGet(b, rawWindow, p)]_vars

\* both sandboxes run, A has assigned foo, and B reads another value for foo
C2_Witness ==
    /\ sandboxRunning["A"] /\ sandboxRunning["B"]
    /\ "foo" \in updatedValueSet["A"]
    /\ ProxyGet("A", rawWindow, "foo") # ProxyGet("B", rawWindow, "foo")

\* C3: a deactivation and an activation of a ProxySandbox leave the value the
\* sandbox reads through its facade unchanged, for every key the sandbox has
\* assigned; so the key reads after the reactivation as it did before the
\* deactivation.
C3_MutationsSurviveDeactivation ==
    [][\A s \in Apps, p \in scope :
          (p \in updatedValueSet[s] /\ (ProxyInactive(s) \/ ProxyActive(s)))
          => ProxyGet(s, rawWindow, p)' = ProxyGet(s, rawWindow, p)]_vars

\* sandbox A is deactivated and still reads the 1 it assigned to foo
C3_Witness ==
    /\ call = <<"inactive", "return">>
    /\ ~sandboxRunning["A"]
    /\ "foo" \in updatedValueSet["A"]
    /\ ProxyGet("A", rawWindow, "foo") = 1

\* C10: whenever a deactivation leaves no ProxySandbox running, window owns
\* none of the allow-list keys that a sandbox wrote to it.
C10_AllowListKeysSweptWithLastSandbox ==
    (/\ call = <<"inactive", "return">>
     /\ \A s \in Apps : ~sandboxRunning[s])
    => \A p \in escaped : ~HasOwn(rawWindow, p)

\* C11: whenever a running ProxySandbox has assigned an allow-list key, window
\* owns that key.
C11_AllowListKeyOnWindowWhileRunning ==
    \A s \in Apps, p \in scope :
        (/\ sandboxType[s] = "Proxy"
         /\ sandboxRunning[s]
         /\ InWhiteList(p)
         /\ p \in updatedValueSet[s])
        => HasOwn(rawWindow, p)

-----------------------------------------------------------------------------
(* Properties of assignments to a sandbox that is not running, under
   SpecContainer *)

C9_AtMostOneLegacySandboxRunning ==
    Cardinality({s \in Apps : sandboxType[s] = "LegacyProxy" /\ sandboxRunning[s]}) <= 1

-----------------------------------------------------------------------------
(* Properties of definitions through the facade, under SpecLegacyDefine *)

\* C5: a defineProperty through the facade of a sandbox that is not running,
\* of either kind, leaves window and the overlay as they were.
C5_DefineWhileInactiveIsIgnored ==
    [][\A s \in Apps, p \in scope, d \in DefineAttributes :
          (/\ ~sandboxRunning[s]
           /\ ProxyDefineProperty(s, p, d) \/ LegacyDefineProperty(s, p, d))
          => UNCHANGED <<rawWindow, fakeWindow>>]_vars

-----------------------------------------------------------------------------
(* Properties of the legacy sandbox, under SpecLegacy *)

\* C6: after a deactivation of the legacy sandbox, window owns none of the keys
\* the sandbox added, that is, the keys window did not own when the facade
\* first assigned them.
C6_AddedKeysAbsentAfterInactive ==
    call = <<"inactive", "return">> => \A p \in history.added : ~HasOwn(rawWindow, p)

\* the sandbox added a key, assigned it again in a later run, and was
\* deactivated
C6_Witness ==
    /\ call = <<"inactive", "return">>
    /\ history.endedRun
    /\ history.added # {}
    /\ history.assigned \cap history.added # {}
    /\ \E p \in history.added :
           MapHas(modifiedPropsOriginalValueMapInSandbox["A"], p)

\* C7: after a deactivation that ends a run of the legacy sandbox, every key
\* assigned through the facade during that run has the value window had for it
\* when the run began.
C7_ModifiedKeysRestoredToRunStart ==
    (call = <<"inactive", "return">> /\ history.endedRun)
    => \A p \in history.assigned :
           GetValue(rawWindow, p) = GetValue(history.runStart, p)

\* C8: an activation that directly follows the deactivation that ended a run
\* gives every key the facade has assigned the value window had for it just
\* before the deactivation.
C8_InactiveThenActiveRoundTrip ==
    [][(call = <<"inactive", "return">> /\ history.endedRun /\ LegacyActive("A"))
       => \A p \in history.everAssigned :
              GetValue(rawWindow', p) = GetValue(history.beforeInactive, p)]_vars

-----------------------------------------------------------------------------
(* Specification of the containers' life cycle: creation, mount() and
   unmount() in any order, with nothing assigned through the facades *)

InitLifecycle ==
    /\ scope = {}
    /\ rawWindow = EmptyObject
    /\ isTopWindow = TRUE
    /\ windowProxy = TRUE
    /\ NoSandboxes

NextLifecycle ==
    \/ \E a \in Apps, loose \in BOOLEAN :
           CreateSandboxContainer(a, loose) /\ UNCHANGED <<readVars, loaderVars, observerVars>>
    \/ \E a \in Apps : Mount(a) /\ UNCHANGED <<readVars, loaderVars, observerVars>>
    \/ \E a \in Apps : Unmount(a) /\ UNCHANGED <<readVars, loaderVars, observerVars>>

SpecLifecycle == InitLifecycle /\ [][NextLifecycle]_vars

-----------------------------------------------------------------------------
(* Properties of mount() and unmount(), under SpecLifecycle *)

\* the Rebuilders of a queue that a Freer of the given phase returned
RebuildersOf(queue, phase) == SelectSeq(queue, LAMBDA r : r.phase = phase)

\* the Rebuilders a mount() or unmount() ran, in the order it ran them
Rebuilt(trace) ==
    LET ran == SelectSeq(trace, LAMBDA e : e[1] = "rebuild")
    IN  [i \in DOMAIN ran |-> ran[i][2]]

\* C12: in a mount(), no Rebuilder of a bootstrap-phase Freer runs after a
\* Rebuilder of a mount-phase Freer, and all the queued Rebuilders of both
\* phases run.
C12_BootstrapRebuildersFirst ==
    [][\A a \in Apps :
          Mount(a) =>
              LET ran == Rebuilt(lifecycleTrace'[a])
              IN  /\ \A i, j \in DOMAIN ran :
                         (i < j /\ ran[j].phase = "bootstrapping")
                         => ran[i].phase = "bootstrapping"
                  /\ Len(ran) = Len(sideEffectsRebuilders[a])]_vars

\* a mount() after an unmount() has run Rebuilders of both phases
C12_Witness ==
    \E a \in Apps :
        /\ call = <<"mount", "return">>
        /\ \E i, j \in DOMAIN Rebuilt(lifecycleTrace[a]) :
               /\ Rebuilt(lifecycleTrace[a])[i].phase = "bootstrapping"
               /\ Rebuilt(lifecycleTrace[a])[j].phase = "mounting"

\* C13: a mount() activates the sandbox, runs the queued Rebuilders of the
\* bootstrap phase, installs the mount-phase patches, runs the queued
\* Rebuilders of the mount phase, in this order, and leaves the queue empty;
\* the first mount() of a container runs no Rebuilder.
C13_MountOrder ==
    [][\A a \in Apps :
          Mount(a) =>
              /\ lifecycleTrace'[a] =
                     <<<<"active", a>>>>
                     \o Events("rebuild",
                               RebuildersOf(sideEffectsRebuilders[a], "bootstrapping"))
                     \o <<<<"patchAtMounting", a>>>>
                     \o Events("rebuild",
                               RebuildersOf(sideEffectsRebuilders[a], "mounting"))
              /\ sideEffectsRebuilders'[a] = <<>>
              /\ sandboxRunning'[a]
              /\ mountingFreers'[a] = patchAtMounting
              /\ lifecycleTrace[a] = <<>> => Rebuilt(lifecycleTrace'[a]) = <<>>]_vars

\* a mount() has run Rebuilders on both sides of the installation of the
\* mount-phase patches
C13_Witness ==
    \E a \in Apps :
        /\ call = <<"mount", "return">>
        /\ Len(lifecycleTrace[a]) = 2 + NumBootstrappingPatchers + NumMountingPatchers
        /\ sideEffectsRebuilders[a] = <<>>

Count(seq, x) == Cardinality({i \in DOMAIN seq : seq[i] = x})

Range(seq) == {seq[i] : i \in DOMAIN seq}

\* the latest of mount() and unmount() on the container was an unmount()
Unmounted(a) ==
    /\ lifecycleTrace[a] # <<>>
    /\ lifecycleTrace[a][Len(lifecycleTrace[a])][1] = "inactive"

\* a mount() runs every queued Rebuilder once, runs no other, and empties the queue
RunsTheQueueOnce(a) ==
    /\ \A r \in Range(sideEffectsRebuilders[a]) \cup Range(Rebuilt(lifecycleTrace'[a])) :
           Count(Rebuilt(lifecycleTrace'[a]), r) = Count(sideEffectsRebuilders[a], r)
    /\ sideEffectsRebuilders'[a] = <<>>

\* C15 as stated: every Rebuilder an unmount() obtains runs exactly once, at
\* the next mount() and at no later one, in any sequence of calls; so a
\* mount() runs the queue once and empties it, and no unmount() finds
\* Rebuilders in the queue that have not run.
C15_EveryRebuilderRunsOnce ==
    [][\A a \in Apps :
          /\ Mount(a) => RunsTheQueueOnce(a)
          /\ Unmount(a) => sideEffectsRebuilders[a] = <<>>]_vars

\* C15 amended: a mount() runs every queued Rebuilder exactly once and empties
\* the queue, so none runs at a later mount(); an unmount() finds the queue
\* empty unless it follows another unmount(), whose Rebuilders it replaces.
C15_QueuedRebuildersRunOnce ==
    [][\A a \in Apps :
          /\ Mount(a) => RunsTheQueueOnce(a)
          /\ (Unmount(a) /\ ~Unmounted(a)) => sideEffectsRebuilders[a] = <<>>]_vars

\* a mount() has run the Rebuilders of the unmount() before it
C15_Witness ==
    \E a \in Apps :
        /\ call = <<"mount", "return">>
        /\ Len(Rebuilt(lifecycleTrace[a])) = NumBootstrappingPatchers + NumMountingPatchers
        /\ mountingFreers[a] = patchAtMounting

-----------------------------------------------------------------------------
(* Specification of the patch layer: strict-sandbox containers whose mount()
   and unmount() alternate, a sandbox that has no container, facade reads and
   element creation *)

\* the latest of mount() and unmount() on the container was a mount()
Mounted(a) == lifecycleTrace[a] # <<>> /\ lifecycleTrace[a][1][1] = "active"

NextPatch ==
    \/ \E a \in Apps :
           CreateSandboxContainer(a, FALSE) /\ UNCHANGED <<readVars, loaderVars, observerVars>>
    \/ ProxyConstruct("B") /\ UNCHANGED <<readVars, loaderVars, observerVars>>
    \/ \E a \in proxyAttachContainerConfigMap :
           ~Mounted(a) /\ Mount(a) /\ UNCHANGED <<readVars, loaderVars, observerVars>>
    \/ \E a \in proxyAttachContainerConfigMap :
           Mounted(a) /\ Unmount(a) /\ UNCHANGED <<readVars, loaderVars, observerVars>>
    \/ \E s \in Apps, p \in {"document", UnscopablesKey} :
           ProxyRead(s, p) /\ UNCHANGED <<loaderVars, observerVars>>
    \/ Tick /\ UNCHANGED <<loaderVars, observerVars>>
    \/ \E tagName \in Tags : CreateElement(tagName) /\ UNCHANGED <<readVars, loaderVars, observerVars>>

SpecPatch == InitLifecycle /\ [][NextPatch]_vars

\* C16: while a strict-sandbox container is mounted, document.createElement is
\* intercepted; and a Freer restores the original functions only in a call
\* that leaves the bootstrap counter and the mount counter at 0.
C16_InterceptionWhileMounted ==
    /\ []((\E a \in Apps : Mounted(a)) => createElementPatched)
    /\ [][\A a \in Apps :
             Unmount(a) =>
                 \A i \in DOMAIN lifecycleTrace'[a] :
                     (lifecycleTrace'[a][i][1] = "free" /\ lifecycleTrace'[a][i][3].restored)
                     => (lifecycleTrace'[a][i][3].boot = 0
                         /\ lifecycleTrace'[a][i][3].mnt = 0)]_vars

\* one container is mounted while the other has been mounted and unmounted
\* twice, which has taken the bootstrap counter to 0
C16_Witness ==
    /\ Mounted("A")
    /\ Unmounted("B")
    /\ bootstrappingPatchCount = 0
    /\ mountingPatchCount = 1
    /\ createElementPatched

\* C17: the interception tags the element it creates exactly when the tag is
\* hijacked, the marker is set and the marked facade has a ContainerConfig, and
\* then with that facade's config; without the interception no element is
\* tagged.
C17_ElementsTaggedForMarkedSandbox ==
    [][\A tagName \in Tags :
          CreateElement(tagName) =>
              /\ createdElement'.tag = tagName
              /\ createdElement'.config # Null
                 <=> /\ createElementPatched
                     /\ tagName \in {"script", "style", "link", "iframe", "base"}
                     /\ currentRunningSandboxProxy # Null
                     /\ currentRunningSandboxProxy \in proxyAttachContainerConfigMap
              /\ createdElement'.config \in {Null, currentRunningSandboxProxy}]_vars

\* a style element was tagged for sandbox A
C17_Witness ==
    /\ call = <<"createElement", "return">>
    /\ createdElement = [tag |-> "style", config |-> "A"]

-----------------------------------------------------------------------------
(* Specification of the reads through the facades of two multi-instance
   sandboxes, in a top-level window or in a frame *)

ReadKeys == {"foo", "window", "self", "globalThis", "top", "parent"}

\* the browsers' descriptors of the self-referential own properties of window
SelfReferenceProps(p) ==
    IF p \in {"window", "top"}
    THEN {AccessorProp(HostValue, FALSE, TRUE), DataProp(HostValue, FALSE, FALSE, TRUE)}
    ELSE IF p \in {"self", "parent"} THEN {AccessorProp(HostValue, TRUE, TRUE)}
    ELSE {DataProp(HostValue, TRUE, TRUE, FALSE)}

InitRead ==
    /\ scope \in {{k} : k \in ReadKeys}
    /\ IF scope = {"foo"}
       THEN rawWindow \in HostWindows(scope)
       ELSE \E p \in scope : \E d \in SelfReferenceProps(p) :
                rawWindow = [k \in scope |-> d]
    /\ isTopWindow \in BOOLEAN
    /\ windowProxy = TRUE
    /\ NoSandboxes

NextRead ==
    \/ \E s \in Apps : ProxyConstruct(s) /\ UNCHANGED <<readVars, loaderVars, observerVars>>
    \/ \E s \in Apps : ProxyActive(s) /\ UNCHANGED <<readVars, loaderVars, observerVars>>
    \/ \E s \in Apps : ProxyInactive(s) /\ UNCHANGED <<readVars, loaderVars, observerVars>>
    \/ \E s \in Apps, p \in scope, v \in AppValues :
           ProxySet(s, p, v) /\ UNCHANGED <<readVars, loaderVars, observerVars>>
    \/ \E s \in Apps, p \in scope \cup {UnscopablesKey} :
           ProxyRead(s, p) /\ UNCHANGED <<loaderVars, observerVars>>
    \/ Tick /\ UNCHANGED <<loaderVars, observerVars>>

SpecRead == InitRead /\ [][NextRead]_vars

\* the scheduler runs the pending tasks
SpecReadFair == SpecRead /\ WF_vars(Tick /\ UNCHANGED <<loaderVars, observerVars>>)

IsRead == \E s \in Apps, p \in ReadKeys \cup {UnscopablesKey} : ProxyRead(s, p)

\* C18 as stated: a read through a facade, whatever the key, leaves the
\* marker equal to the facade that was read.
C18_EveryReadMarksTheFacade ==
    [][\A s \in Apps, p \in ReadKeys \cup {UnscopablesKey} :
          ProxyRead(s, p) => currentRunningSandboxProxy' = s]_vars

\* C18: a read through a facade of any key other than Symbol.unscopables
\* leaves the marker equal to the facade that was read; a read of
\* Symbol.unscopables leaves the marker as it was.
C18_ReadsButUnscopablesMarkTheFacade ==
    [][\A s \in Apps, p \in ReadKeys \cup {UnscopablesKey} :
          ProxyRead(s, p) =>
              IF p = UnscopablesKey
              THEN currentRunningSandboxProxy' = currentRunningSandboxProxy
              ELSE currentRunningSandboxProxy' = s]_vars

\* facade A was read, of a self-referential key, while the marker named B
C18_Witness ==
    /\ call = <<"get", "return">>
    /\ returned = ProxyRef("A")
    /\ currentRunningSandboxProxy = "A"
    /\ sandboxType["B"] = "Proxy"
    /\ ~sandboxRunning["A"]

\* C19: a marker that reads have set is cleared by a tick that follows, and a
\* null marker stays null until a facade is read: so if from some point on no
\* facade is read, the marker becomes null and stays null.
C19_MarkerClearedByNextTick ==
    /\ (currentRunningSandboxProxy # Null) ~> (currentRunningSandboxProxy = Null)
    /\ [][(currentRunningSandboxProxy = Null /\ ~IsRead)
            => currentRunningSandboxProxy' = Null]_vars
    /\ [][Tick => currentRunningSandboxProxy' = Null]_vars

\* the marker names the sandbox read last and the clearing is pending
C19_Witness ==
    /\ currentRunningSandboxProxy = "B"
    /\ nextTaskPending
    /\ call = <<"get", "return">>

\* C20: window, self and globalThis read through a facade are the facade;
\* top and parent are the facade when window is its own parent, and window's
\* own top and parent when it is not.
C20_SelfReferencesResolveToTheFacade ==
    [][\A s \in Apps, p \in ReadKeys :
          ProxyRead(s, p) =>
              /\ p \in {"window", "self", "globalThis"} => returned' = ProxyRef(s)
              /\ p \in {"top", "parent"} =>
                    returned' = IF isTopWindow THEN ProxyRef(s)
                                ELSE Plain(GetValue(rawWindow, p))]_vars

\* globalThis was assigned through the facade of a sandbox that is no longer
\* running, and read through it
C20_Witness ==
    /\ call = <<"get", "return">>
    /\ scope = {"globalThis"}
    /\ HasOwn(fakeWindow["A"], "globalThis")
    /\ fakeWindow["A"]["globalThis"].val = 1
    /\ ~sandboxRunning["A"]
    /\ returned = ProxyRef("A")

-----------------------------------------------------------------------------
(* Assignments through the facades, under SpecProxy and SpecWrites *)

\* C21: an assignment of v to k through the facade of a running ProxySandbox
\* whose overlay does not own k leaves the overlay owning k with value v, with
\* the enumerability and configurability of window's k where window owns k,
\* and the facade then reads v for k.
C21_AssignmentShadowsInOverlay ==
    [][\A s \in Apps, p \in scope, v \in AppValues :
          (/\ ProxySet(s, p, v)
           /\ sandboxRunning[s]
           /\ ~HasOwn(fakeWindow[s], p)
           /\ call' = <<"set", "return">>)
          => /\ HasOwn(fakeWindow'[s], p)
             /\ fakeWindow'[s][p].val = v
             /\ HasOwn(rawWindow, p) =>
                   /\ fakeWindow'[s][p].enumerable = rawWindow[p].enumerable
                   /\ fakeWindow'[s][p].configurable = rawWindow[p].configurable
             /\ ProxyGetTrap(s, rawWindow, p)' = Plain(v)]_vars

\* a multi-instance and a legacy sandbox side by side on one key
InitWrites ==
    /\ scope \in {{k} : k \in ProxyKeys}
    /\ rawWindow \in HostWindows(scope)
    /\ isTopWindow = TRUE
    /\ windowProxy = TRUE
    /\ NoSandboxes

NextWrites ==
    \/ ProxyConstruct("A") /\ UNCHANGED <<readVars, loaderVars, observerVars>>
    \/ LegacyConstruct("B") /\ UNCHANGED <<readVars, loaderVars, observerVars>>
    \/ ProxyActive("A") /\ UNCHANGED <<readVars, loaderVars, observerVars>>
    \/ ProxyInactive("A") /\ UNCHANGED <<readVars, loaderVars, observerVars>>
    \/ LegacyActive("B") /\ UNCHANGED <<readVars, loaderVars, observerVars>>
    \/ LegacyInactive("B") /\ UNCHANGED <<readVars, loaderVars, observerVars>>
    \/ \E p \in scope, v \in AppValues :
           ProxySet("A", p, v) /\ UNCHANGED <<readVars, loaderVars, observerVars>>
    \/ \E p \in scope, v \in AppValues :
           LegacySet("B", p, v) /\ UNCHANGED <<readVars, loaderVars, observerVars>>
    \/ \E p \in scope : ProxyDeleteProperty("A", p) /\ UNCHANGED <<readVars, loaderVars, observerVars>>

SpecWrites == InitWrites /\ [][NextWrites]_vars

\* C22: an assignment that a running sandbox accepts leaves latestSetProp equal
\* to the assigned key; for a ProxySandbox the key is then in updatedValueSet,
\* and a key leaves updatedValueSet only by a deletion through the facade.
C22_AcceptedKeyIsRecorded ==
    [][\A s \in Apps, p \in scope :
          /\ \A v \in AppValues :
                (ProxySet(s, p, v) /\ sandboxRunning[s] /\ call' = <<"set", "return">>)
                => (latestSetProp'[s] = p /\ p \in updatedValueSet'[s])
          /\ \A v \in AppValues :
                (LegacySet(s, p, v) /\ sandboxRunning[s] /\ call' = <<"set", "return">>)
                => latestSetProp'[s] = p
          /\ (p \in updatedValueSet[s] /\ p \notin updatedValueSet'[s])
                => ProxyDeleteProperty(s, p)]_vars

\* both sandboxes accepted an assignment of foo, and the multi-instance one
\* still owns the key after its inactive()
C22_Witness ==
    /\ latestSetProp["A"] = "foo"
    /\ latestSetProp["B"] = "foo"
    /\ "foo" \in updatedValueSet["A"]
    /\ ~sandboxRunning["A"]
    /\ call = <<"inactive", "return">>

-----------------------------------------------------------------------------
(* Reads of ordinary keys, under SpecProxyDefine *)

\* what the facade of s reads for p when window's own accessors are always
\* read from window
LiveOrOverlay(s, p, live) ==
    IF live THEN GetValue(rawWindow, p)
    ELSE IF HasOwn(fakeWindow[s], p) THEN fakeWindow[s][p].val
    ELSE GetValue(rawWindow, p)

\* C23 as stated: a read of an ordinary key returns window's live value when
\* the key is a property of window with a getter, otherwise the overlay's
\* value when the overlay owns the key, otherwise window's value.
C23_GetterBackedKeysReadLive ==
    [][\A p \in scope :
          ProxyRead("A", p) =>
              returned' = Plain(LiveOrOverlay("A", p,
                                HasOwn(rawWindow, p) /\ rawWindow[p].getter))]_vars

\* C23: a read of an ordinary key returns window's live value when the key
\* was an own accessor property of window, not configurable, when the sandbox
\* was constructed; otherwise the overlay's value when the overlay owns the
\* key, otherwise window's value.
C23_KeysWithGetterAtConstructionReadLive ==
    [][\A p \in scope :
          ProxyRead("A", p) =>
              returned' = Plain(LiveOrOverlay("A", p, p \in propertiesWithGetter["A"]))]_vars

\* the overlay shadows a property with a getter whose value on window has
\* changed since construction, and the read returned window's value
C23_Witness ==
    /\ call = <<"get", "return">>
    /\ "foo" \in propertiesWithGetter["A"]
    /\ HasOwn(fakeWindow["A"], "foo")
    /\ fakeWindow["A"]["foo"].val # rawWindow["foo"].val
    /\ returned = Plain(rawWindow["foo"].val)

-----------------------------------------------------------------------------
(* Assignment followed by deletion, under SpecProxy *)

\* C24: deleting through the facade a key that window owns and that was
\* assigned through the running facade restores the behaviour before the
\* assignment: the facade reads window's value for the key, the key is out of
\* updatedValueSet, and neither the assignment nor the deletion changes
\* window's property.
C24_DeleteRestoresPreShadowBehaviour ==
    [][\A s \in Apps, p \in scope :
          /\ (ProxyDeleteProperty(s, p) /\ HasOwn(rawWindow, p) /\ p \in updatedValueSet[s])
                => /\ ProxyGetTrap(s, rawWindow, p)' = Plain(GetValue(rawWindow, p))
                   /\ p \notin updatedValueSet'[s]
                   /\ rawWindow' = rawWindow
          /\ \A v \in AppValues :
                (ProxySet(s, p, v) /\ HasOwn(rawWindow, p) /\ sandboxRunning[s])
                => rawWindow' = rawWindow]_vars

-----------------------------------------------------------------------------
(* The counter of running multi-instance sandboxes, under SpecProxy *)

\* C30: activeSandboxCount is the number of ProxySandbox instances whose
\* sandboxRunning is true.
C30_CounterCountsRunningSandboxes ==
    activeSandboxCount =
        Cardinality({s \in Apps : sandboxType[s] = "Proxy" /\ sandboxRunning[s]})

-----------------------------------------------------------------------------
(* Specification of the loader with one application: every configuration, a
   browser with or without window.Proxy, a container that comes and goes *)

InitSetup ==
    /\ scope = {}
    /\ rawWindow = EmptyObject
    /\ isTopWindow = TRUE
    /\ windowProxy \in BOOLEAN
    /\ NoSandboxes

Chains(apps) ==
    \/ \E a \in apps : LoadAppSetup(a) /\ UNCHANGED <<readVars, startVars, observerVars>>
    \/ \E a \in apps : MountGate(a) /\ UNCHANGED <<readVars, startVars, observerVars>>
    \/ \E a \in apps : MountGatePassed(a) /\ UNCHANGED <<readVars, startVars, observerVars>>
    \/ \E a \in apps : MountWrapperGetter(a) /\ UNCHANGED <<readVars, startVars, observerVars>>
    \/ \E a \in apps : MountRender(a) /\ UNCHANGED <<readVars, startVars, observerVars>>
    \/ \E a \in apps : MountSandbox(a) /\ UNCHANGED <<readVars, startVars, observerVars>>
    \/ \E a \in apps : MountBeforeMount(a) /\ UNCHANGED <<readVars, startVars, observerVars>>
    \/ \E a \in apps : MountApp(a) /\ UNCHANGED <<readVars, startVars, observerVars>>
    \/ \E a \in apps : MountRendered(a) /\ UNCHANGED <<readVars, startVars, observerVars>>
    \/ \E a \in apps : MountAfterMount(a) /\ UNCHANGED <<readVars, startVars, observerVars>>
    \/ \E a \in apps : MountDeferred(a) /\ UNCHANGED <<readVars, startVars, observerVars>>
    \/ \E a \in apps : UnmountBeforeUnmount(a) /\ UNCHANGED <<readVars, startVars, observerVars>>
    \/ \E a \in apps : UnmountApp(a) /\ UNCHANGED <<readVars, startVars, observerVars>>
    \/ \E a \in apps : UnmountSandbox(a) /\ UNCHANGED <<readVars, startVars, observerVars>>
    \/ \E a \in apps : UnmountAfterUnmount(a) /\ UNCHANGED <<readVars, startVars, observerVars>>
    \/ \E a \in apps : UnmountRender(a) /\ UNCHANGED <<readVars, startVars, observerVars>>
    \/ \E a \in apps : UnmountResolve(a) /\ UNCHANGED <<readVars, startVars, observerVars>>

NextSetup ==
    \/ \E config \in Configs : LoadApp("A", config) /\ UNCHANGED <<readVars, startVars, observerVars>>
    \/ Chains({"A"})
    \/ ContainerChange /\ UNCHANGED <<readVars, startVars, observerVars>>

SpecSetup == InitSetup /\ [][NextSetup]_vars

\* C25: createSandboxContainer instantiates the snapshot sandbox when
\* window.Proxy is missing, whatever the loose flag, the legacy sandbox when
\* window.Proxy is there and loose mode is asked for, the multi-instance
\* sandbox otherwise; and it returns.
C25_StrategyFromProxySupportAndLooseFlag ==
    [][\A a \in Apps, useLooseSandbox \in BOOLEAN :
          CreateSandboxContainer(a, useLooseSandbox) =>
              /\ call' = <<"createSandboxContainer", "return">>
              /\ sandboxRunning'[a]
              /\ sandboxType'[a] = IF ~windowProxy THEN "Snapshot"
                                   ELSE IF useLooseSandbox THEN "LegacyProxy"
                                   ELSE "Proxy"]_vars

\* without window.Proxy the application asked for the strict sandbox and got
\* the snapshot sandbox
C25_Witness ==
    /\ ~windowProxy
    /\ ~appConfig["A"].loose
    /\ sandboxType["A"] = "Snapshot"
    /\ call = <<"createSandboxContainer", "return">>

\* C26: an application that combines a legacy render with strictStyleIsolation
\* or with scoped CSS fails while it is loaded: it never reaches the end of
\* loadApp, and no function of its mount chain runs.
C26_IncompatibleFlagsFailAtSetup ==
    \A a \in Apps :
        (/\ appConfig[a].legacyRender
         /\ appConfig[a].strictStyleIsolation \/ appConfig[a].scopedCSS)
        => appStatus[a].status \in {"NOT_LOADED", "LOADING_SOURCE_CODE",
                                    "SKIP_BECAUSE_BROKEN"}

RenderCalls(a) ==
    {<<LoadAppSetup(a), "loading">>, <<MountRender(a), "mounting">>,
     <<MountRendered(a), "mounted">>, <<UnmountRender(a), "unmounted">>}

\* what a render call does when the container is missing and the error is due
RenderOutcome(a, phase) ==
    IF phase = "unmounted"
    THEN appStatus'[a].status # "SKIP_BECAUSE_BROKEN" /\ lastError'[a] = lastError[a]
    ELSE /\ appStatus'[a].status = "SKIP_BECAUSE_BROKEN"
         /\ lastError'[a] = [kind |-> "container", app |-> a, phase |-> phase]

\* C27 as stated: a render call without the container rejects the chain with
\* an error that names the application and the phase in the phases loading,
\* mounting and mounted, and raises nothing in the phase unmounted, for every
\* configuration.
C27_AbsentContainerIsFatalOutsideUnmounted ==
    [][\A a \in Apps :
          \A c \in RenderCalls(a) : (c[1] /\ ~containerExists) => RenderOutcome(a, c[2])]_vars

\* C27: the same for every configuration without a legacy render; with a
\* legacy render no render call raises an error.
C27_AbsentContainerIsFatalWithoutLegacyRender ==
    [][\A a \in Apps :
          \A c \in RenderCalls(a) :
              (c[1] /\ ~containerExists) =>
                  IF appConfig[a].legacyRender
                  THEN appStatus'[a].status # "SKIP_BECAUSE_BROKEN"
                  ELSE RenderOutcome(a, c[2])]_vars

\* the chain was rejected by the render after the mount, the container gone
C27_Witness ==
    /\ ~containerExists
    /\ appStatus["A"].status = "SKIP_BECAUSE_BROKEN"
    /\ lastError["A"] = [kind |-> "container", app |-> "A", phase |-> "mounted"]

-----------------------------------------------------------------------------
(* Specification of the loader with two applications in single-instance mode *)

SingularConfigs ==
    {c \in Configs : c.singular /\ ~c.legacyRender /\ ~c.strictStyleIsolation
                     /\ ~c.scopedCSS}

NextLoader ==
    \/ \E a \in Apps, config \in SingularConfigs :
           LoadApp(a, config) /\ UNCHANGED <<readVars, startVars, observerVars>>
    \/ Chains(Apps)

SpecLoader == InitLifecycle /\ [][NextLoader]_vars

\* the application is past the gate of its mount chain and not yet at the end
\* of its unmount chain
PastTheGate(a) ==
    \/ appStatus[a].status = "MOUNTING" /\ appStatus[a].step # "gate"
    \/ appStatus[a].status \in {"MOUNTED", "UNMOUNTING"}

\* C29: in single-instance mode, while one application is between the gate
\* of its mount chain and the end of its unmount chain, no other application
\* is.
C29_OneApplicationPastTheGate ==
    Cardinality({a \in Apps : PastTheGate(a)}) <= 1

-----------------------------------------------------------------------------
(* Specification of the dynamic style elements of strict-sandbox containers *)

NextStyles ==
    \/ \E a \in Apps :
           CreateSandboxContainer(a, FALSE) /\ UNCHANGED <<readVars, loaderVars, observerVars>>
    \/ \E a \in proxyAttachContainerConfigMap :
           ~Mounted(a) /\ Mount(a) /\ UNCHANGED <<readVars, loaderVars, observerVars>>
    \/ \E a \in proxyAttachContainerConfigMap :
           Mounted(a) /\ Unmount(a) /\ UNCHANGED <<readVars, loaderVars, observerVars>>
    \/ \E element \in StyleElements :
           AppendDynamicStyle("A", element) /\ UNCHANGED <<readVars, loaderVars, observerVars>>
    \/ \E element \in StyleElements :
           WrapperRemoveChild("A", element) /\ UNCHANGED <<readVars, loaderVars, observerVars>>

SpecStyles == InitLifecycle /\ [][NextStyles]_vars

\* how often an element occurs in a sequence of elements
Occurrences(elements, element) ==
    Cardinality({i \in DOMAIN elements : elements[i] = element})

\* C28: a mount() that runs the Rebuilders of a strict-sandbox container
\* appends every recorded dynamic style element that the wrapper does not
\* contain, exactly once, and appends none that the wrapper contains; after
\* it every recorded element is under the wrapper once.
C28_RecordedStylesReattachedOnce ==
    [][\A a \in Apps :
          (Mount(a) /\ sandboxType[a] = "Proxy" /\ sideEffectsRebuilders[a] # <<>>)
          => \A element \in StyleElements :
                 /\ Occurrences(reappended'[a], element) =
                        IF /\ Contains(dynamicStyleSheetElements[a], element)
                           /\ ~Contains(wrapperChildren[a], element)
                        THEN 1 ELSE 0
                 /\ Contains(dynamicStyleSheetElements[a], element)
                        => Occurrences(wrapperChildren'[a], element) = 1]_vars

\* a remount whose bootstrap-phase and mount-phase Rebuilders both went through
\* two recorded elements, one of which the wrapper had lost
C28_Witness ==
    /\ Mounted("A")
    /\ \E i, j \in DOMAIN Rebuilt(lifecycleTrace["A"]) :
           /\ Rebuilt(lifecycleTrace["A"])[i].phase = "bootstrapping"
           /\ Rebuilt(lifecycleTrace["A"])[j].phase = "mounting"
    /\ Len(dynamicStyleSheetElements["A"]) = 2
    /\ Len(reappended["A"]) = 1
    /\ Len(wrapperChildren["A"]) = 2

-----------------------------------------------------------------------------
(* Definitions through the multi-instance facade, under SpecProxyDefine *)

\* C31: Object.defineProperty on the facade leaves the shared global object
\* as it was, whatever descriptor queries, assignments and definitions came
\* before on that key.
C31_DefinitionsStayOffWindow ==
    [][\A p \in scope : \A attributes \in DefineAttributes :
          ProxyDefineProperty("A", p, attributes) => rawWindow' = rawWindow]_vars

-----------------------------------------------------------------------------
(* The allow-list keys of the host page, under SpecProxy *)

\* C32: a deactivation of a multi-instance sandbox leaves on window, with its
\* value, every allow-list key that the host page put there and that no
\* sandbox assigned.
C32_HostAllowListKeysSurviveInactive ==
    [][\A s \in Apps :
          ProxyInactive(s) =>
              \A p \in scope :
                  (/\ InWhiteList(p)
                   /\ HasOwn(rawWindow, p)
                   /\ p \notin escaped
                   /\ \A t \in Apps : p \notin updatedValueSet[t])
                  => (HasOwn(rawWindow', p) /\ rawWindow'[p] = rawWindow[p])]_vars

-----------------------------------------------------------------------------
(* The records of the legacy sandbox, under SpecLegacy *)

\* C33: no key is both in the added map and in the modified-original map of a
\* legacy sandbox.
C33_AddedAndModifiedAreDisjoint ==
    \A s \in Apps :
        MapKeys(addedPropsMapInSandbox[s])
            \cap MapKeys(modifiedPropsOriginalValueMapInSandbox[s]) = {}

-----------------------------------------------------------------------------
(* The install counters of the strict-sandbox patch, under SpecPatch *)

\* the strict-sandbox containers that were created and never mounted or
\* unmounted: their bootstrap-phase install has not been released
NeverUnmounted ==
    {b \in proxyAttachContainerConfigMap : lifecycleTrace[b] = <<>>}

\* C34: while a container whose bootstrap-phase patch was installed has never
\* been unmounted, document.createElement stays intercepted and the bootstrap
\* counter counts that install, however often other containers are unmounted
\* and mounted again.
C34_BootstrapInstallsKeptUntilOwnUnmount ==
    /\ NeverUnmounted # {} => createElementPatched
    /\ bootstrappingPatchCount >= Cardinality(NeverUnmounted)

\* C35: mountingPatchCount is the number of strict-sandbox containers whose
\* latest call was a mount(), and is never negative, under SpecLifecycle.
C35_MountCounterCountsMountedContainers ==
    /\ mountingPatchCount >= 0
    /\ mountingPatchCount =
           Cardinality({a \in Apps : sandboxType[a] = "Proxy" /\ Mounted(a)})

-----------------------------------------------------------------------------
(* Specification of the reads through the facade of a legacy sandbox *)

NextLegacyRead ==
    \/ LegacyConstruct("A") /\ UNCHANGED <<readVars, loaderVars, observerVars>>
    \/ LegacyActive("A") /\ UNCHANGED <<readVars, loaderVars, observerVars>>
    \/ LegacyInactive("A") /\ UNCHANGED <<readVars, loaderVars, observerVars>>
    \/ \E p \in scope \ {"globalThis"}, v \in AppValues :
           LegacySet("A", p, v) /\ UNCHANGED <<readVars, loaderVars, observerVars>>
    \/ \E p \in scope : LegacyRead("A", p) /\ UNCHANGED <<loaderVars, observerVars>>

SpecLegacyRead == InitRead /\ [][NextLegacyRead]_vars

\* C36: a read of window, self, globalThis, top or parent through a legacy
\* facade returns the facade.
C36_LegacySelfReferencesResolveToTheFacade ==
    [][\A p \in scope \ {"foo"} :
          LegacyRead("A", p) => returned' = ProxyRef("A")]_vars

-----------------------------------------------------------------------------
(* The order of the loader's chains, under SpecLoader *)

\* C37: the beforeMount hooks, the application's mount function, the
\* beforeUnmount hooks and the application's unmount function run while the
\* sandbox container of the application is mounted and its sandbox running;
\* the container is mounted right after the render of the mount chain and
\* before beforeMount, and unmounted right after the application's unmount
\* function and before afterUnmount.
C37_SandboxMountedAroundTheApplication ==
    [][\A a \in Apps :
          /\ (MountBeforeMount(a) \/ MountApp(a) \/ UnmountBeforeUnmount(a) \/ UnmountApp(a))
                 => (sandboxRunning[a] /\ Mounted(a))
          /\ (~Mounted(a) /\ Mounted(a)')
                 => (/\ appStatus[a] = Status("MOUNTING", "mountSandbox")
                     /\ appStatus'[a] = Status("MOUNTING", "beforeMount"))
          /\ (Mounted(a) /\ ~Mounted(a)')
                 => (/\ appStatus[a] = Status("UNMOUNTING", "unmountSandbox")
                     /\ appStatus'[a] = Status("UNMOUNTING", "afterUnmount"))]_vars

\* the unmount function of A has returned, in its second round, while B is
\* past its own mount function
C37_Witness ==
    /\ appStatus["A"] = Status("UNMOUNTING", "unmountSandbox")
    /\ sandboxRunning["A"] /\ Mounted("A")
    /\ Len(lifecycleTrace["A"]) > 2
    /\ appStatus["B"] = Status("MOUNTING", "rendered")
    /\ sandboxRunning["B"] /\ Mounted("B")

-----------------------------------------------------------------------------
(* Specification of registerMicroApps and start with two applications; the
   route of A is active, so single-spa mounts and unmounts it, the route of B
   is not *)

NextStart ==
    \/ \E apps \in SUBSET Apps :
           RegisterMicroApps(apps) /\ UNCHANGED <<readVars, observerVars>>
    \/ \E a \in Apps : AppLoadingFunction(a) /\ UNCHANGED <<readVars, observerVars>>
    \/ \E opts \in StartOptions : Start(opts) /\ UNCHANGED <<readVars, observerVars>>
    \/ \E a \in Apps : LoadAfterStart(a) /\ UNCHANGED <<readVars, observerVars>>
    \/ LoadAppSetup("B") /\ UNCHANGED <<readVars, startVars, observerVars>>
    \/ Chains({"A"})

SpecStart == InitSetup /\ [][NextStart]_vars

\* the continuation of a loading function runs once the promise it awaits is
\* resolved
SpecStartFair ==
    SpecStart /\ \A a \in Apps : WF_vars(LoadAfterStart(a) /\ UNCHANGED <<readVars, observerVars>>)

\* C38: the load of a registered application has not begun while start() has
\* not been called, and a load that single-spa asked for begins once start()
\* has been called.
C38_LoadsWaitForStart ==
    /\ [](\A a \in Apps : appStatus[a].status # "NOT_LOADED" => frameworkStarted)
    /\ \A a \in Apps :
           (loadRequested[a] = "beforeStart" /\ frameworkStarted)
               ~> (appStatus[a].status # "NOT_LOADED")

\* both loads were asked for before start(); A's has set up its sandbox
\* container and B's has begun
C38_Witness ==
    /\ loadRequested = [a \in Apps |-> "beforeStart"]
    /\ frameworkStarted
    /\ appStatus["A"].status = "MOUNTED"
    /\ appStatus["B"].status = "LOADING_SOURCE_CODE"

-----------------------------------------------------------------------------
(* Specification of the attribution of created elements: two strict-sandbox
   containers, reads through their facades, and document.createElement called
   by the code of either application or of the host page *)

\* code of the host page or of an application that holds a facade calls
\* document.createElement
CreateElementBy(code, tagName) ==
    /\ code \in proxyAttachContainerConfigMap \cup {Host}
    /\ CreateElement(tagName)
    /\ creator' = code
    /\ UNCHANGED <<readVars, loaderVars, history, escaped>>

NextAttribution ==
    \/ \E a \in Apps :
           CreateSandboxContainer(a, FALSE) /\ UNCHANGED <<readVars, loaderVars, observerVars>>
    \/ \E a \in proxyAttachContainerConfigMap :
           ~Mounted(a) /\ Mount(a) /\ UNCHANGED <<readVars, loaderVars, observerVars>>
    \/ \E a \in proxyAttachContainerConfigMap :
           Mounted(a) /\ Unmount(a) /\ UNCHANGED <<readVars, loaderVars, observerVars>>
    \/ \E s \in Apps : ProxyRead(s, "document") /\ UNCHANGED <<loaderVars, observerVars>>
    \/ Tick /\ UNCHANGED <<loaderVars, observerVars>>
    \/ \E code \in Apps \cup {Host}, tagName \in Tags : CreateElementBy(code, tagName)

SpecAttribution == InitLifecycle /\ [][NextAttribution]_vars

\* C39: an element carries no Container Config, or the one of the
\* application whose code created it.
C39_ElementsTaggedForTheirCreator ==
    createdElement.config # Null => createdElement.config = creator

-----------------------------------------------------------------------------
(* Specification of lifecycle discovery: the entry script of application A
   assigns and deletes globals through its facade, then loadApp looks for the
   lifecycles *)

\* the keys the entry script writes: the application's name, another name,
\* and the empty string
DiscoveryKeys == {"A", "foo", ""}

InitDiscovery ==
    /\ scope = DiscoveryKeys
    /\ rawWindow = EmptyObject
    /\ isTopWindow = TRUE
    /\ windowProxy = TRUE
    /\ NoSandboxes

NextDiscovery ==
    \/ ProxyConstruct("A") /\ UNCHANGED <<readVars, loaderVars, observerVars>>
    \/ \E p \in scope, v \in AppValues :
           ProxySet("A", p, v) /\ UNCHANGED <<readVars, loaderVars, observerVars>>
    \/ \E p \in scope :
           ProxyDeleteProperty("A", p) /\ UNCHANGED <<readVars, loaderVars, observerVars>>
    \/ \E scriptExports \in Values :
           DiscoverLifecycles("A", scriptExports) /\ UNCHANGED observerVars

SpecDiscovery == InitDiscovery /\ [][NextDiscovery]_vars

\* what the facade holds under the sandbox's latest-set key, undefined when
\* no key was set
UnderLatestSetProp(s) ==
    IF latestSetProp[s] = Null THEN Undefined
    ELSE ProxyGet(s, rawWindow, latestSetProp[s])

\* C40: lifecycle discovery returns the first valid one of the exports of the
\* entry script, the value under the latest-set key and the global named
\* after the application, and throws an error that names the application
\* exactly when none of the three is valid.
C40_FirstValidCandidateOrFatal ==
    [][\A scriptExports \in Values :
          DiscoverLifecycles("A", scriptExports) =>
              LET candidates == <<scriptExports, UnderLatestSetProp("A"),
                                  ProxyGet("A", rawWindow, "A")>>
                  valid == {i \in 1..3 : validateExportLifecycle(candidates[i])}
              IN  IF valid = {}
                  THEN /\ call' = <<"getLifecyclesFromExports", "throw">>
                       /\ lastError'["A"].app = "A"
                  ELSE /\ call' = <<"getLifecyclesFromExports", "return">>
                       /\ returned' =
                              Plain(candidates[CHOOSE i \in valid :
                                                   \A j \in valid : i <= j])]_vars

====
